---- MODULE Spec2Model ----
(***************************************************************************)
(* A model of the jsonpath-cty query engine: the Read/Prepare pipeline of  *)
(* jsonpath.go (continuation-passing actions over cty values), the         *)
(* JSONPath.Evaluate pipeline with path provenance, ReplaceByPath on top   *)
(* of it, and NewPath and the Apply pipeline of obj.go with its filter     *)
(* (RPN) evaluator.                                                        *)
(***************************************************************************)
EXTENDS Integers, Sequences, FiniteSets, TLC

VARIABLES pc, root, path, acts, out, registry

vars == <<pc, root, path, acts, out, registry>>

(***************************************************************************)
(* Bounds of the model.                                                    *)
(***************************************************************************)
MaxSegs == 2
MaxLen == 3
MaxIdx == 4
MaxStep == 2

(***************************************************************************)
(* cty values.  A value is a record tagged by its kind k.  Indexed         *)
(* containers (list, tuple) hold their elements in e; keyed containers     *)
(* (map, object) hold sorted key names in keys and the values in e.        *)
(***************************************************************************)
NullV == [k |-> "null"]
B(b) == [k |-> "bool", b |-> b]
N(n) == [k |-> "num", n |-> n]
S(s) == [k |-> "str", s |-> s]
T(e) == [k |-> "tuple", e |-> e]
L(e) == [k |-> "list", e |-> e]
O(keys, e) == [k |-> "object", keys |-> keys, e |-> e]
M(keys, e) == [k |-> "map", keys |-> keys, e |-> e]

IsNull(v) == v.k = "null"
IsObjectType(v) == v.k = "object"
IsMapType(v) == v.k = "map"
IsListType(v) == v.k = "list"
IsTupleType(v) == v.k = "tuple"
IsPrimitiveType(v) == v.k \in {"bool", "num", "str"}
IsKeyed(v) == v.k \in {"object", "map"}
IsIndexed(v) == v.k \in {"list", "tuple"}

\* cty.Value.CanIterateElements: collections and structural types
CanIterateElements(v) == v.k \in {"list", "tuple", "map", "object"}

\* position of key name s in a sorted key sequence, 0 when absent
KeyPos(keys, s) ==
  IF \E i \in DOMAIN keys : keys[i] = s
  THEN CHOOSE i \in DOMAIN keys : keys[i] = s
  ELSE 0

\* cty.Type.HasAttribute on an object type
HasAttribute(v, s) == IsObjectType(v) /\ KeyPos(v.keys, s) # 0

\* cty.Value.GetAttr
GetAttr(v, s) == v.e[KeyPos(v.keys, s)]

\* cty.Value.HasIndex: lists and tuples take whole numbers in range, maps
\* take strings; every other receiver answers false
HasIndex(v, key) ==
  CASE IsIndexed(v) -> key.k = "num" /\ key.n >= 0 /\ key.n < Len(v.e)
    [] IsMapType(v) -> key.k = "str" /\ KeyPos(v.keys, key.s) # 0
    [] OTHER -> FALSE

\* cty.Value.Index
Index(v, key) ==
  IF IsIndexed(v) THEN v.e[key.n + 1] ELSE v.e[KeyPos(v.keys, key.s)]

\* cty.Value.LengthInt on a collection or structural value
LengthInt(v) == Len(v.e)

\* the keys cty.Value.ElementIterator yields, in iteration order
ElementKeys(v) ==
  IF IsIndexed(v) THEN [i \in DOMAIN v.e |-> N(i - 1)]
  ELSE [i \in DOMAIN v.e |-> S(v.keys[i])]

\* cty.Value.AsValueSlice: the element values in iteration order
AsValueSlice(v) == v.e

\* cty.Value.Equals(...).True() on known values
CtyEquals(a, b) == a = b

(***************************************************************************)
(* Tokens of a path text, as text/scanner hands them to the parser.        *)
(***************************************************************************)
TDollar == [t |-> "$"]
TDot == [t |-> "."]
TStar == [t |-> "*"]
TLBr == [t |-> "["]
TRBr == [t |-> "]"]
TColon == [t |-> ":"]
TComma == [t |-> ","]
TMinus == [t |-> "-"]
TQuest == [t |-> "?"]
TEOF == [t |-> "EOF"]
TIdent(s) == [t |-> "ident", s |-> s]
TString(s) == [t |-> "string", s |-> s]
TInt(n) == [t |-> "int", n |-> n]

\* the token the scanner returns at position pos (EOF past the end)
Tok(toks, pos) == IF pos > Len(toks) THEN TEOF ELSE toks[pos]

(***************************************************************************)
(* Compiled actions (actionFunc closures) of the Read/Prepare pipeline.    *)
(***************************************************************************)
AEnd == [t |-> "end"]
AAttr(ident) == [t |-> "attr", ident |-> ident]
AWild == [t |-> "wild"]
ADeepParent == [t |-> "deepParent"]
ADeepChildren == [t |-> "deepChildren"]
APass == [t |-> "pass"]
AIndex(index) == [t |-> "index", index |-> index]
ASlice(indexes) == [t |-> "slice", indexes |-> indexes]
AUnion(indexes) == [t |-> "union", indexes |-> indexes]

ParseErr == [err |-> TRUE, pos |-> 0, acts |-> <<>>]
ParseOk(pos, as) == [err |-> FALSE, pos |-> pos, acts |-> as]

\* a tail of parseArray that takes a range of any number of entries
ArrayStepAnyRange(indexes, mode, pos) ==
  IF mode = "slice" THEN ParseOk(pos, <<ASlice(indexes)>>)
  ELSE IF Len(indexes) = 1
       THEN ParseOk(pos, <<AIndex(indexes[1])>>)
       ELSE ParseOk(pos, <<AUnion(indexes)>>)

\* the tail of parseArray: the step chosen from the mode and the entries
ArrayStep(indexes, mode, pos) ==
  IF mode = "slice"
  THEN IF Len(indexes) > 3 THEN ParseErr ELSE ParseOk(pos, <<ASlice(indexes)>>)
  ELSE IF Len(indexes) = 1
       THEN ParseOk(pos, <<AIndex(indexes[1])>>)
       ELSE ParseOk(pos, <<AUnion(indexes)>>)

RECURSIVE parseArray(_, _, _, _)
\* a separator half that lets every separator set the mode anew
parseArraySepAnyMode(toks, pos, indexes, mode) ==
  LET tk == Tok(toks, pos) IN
  CASE tk.t = "," -> parseArray(toks, pos + 1, indexes, "union")
    [] tk.t = ":" -> parseArray(toks, pos + 1, indexes, "slice")
    [] tk.t = "]" -> ArrayStep(indexes, mode, pos + 1)
    [] OTHER -> ParseErr

\* the separator half of the parseArray loop
parseArraySep(toks, pos, indexes, mode) ==
  LET tk == Tok(toks, pos) IN
  CASE tk.t = "," ->
         IF mode = "" \/ mode = "union"
         THEN parseArray(toks, pos + 1, indexes, "union")
         ELSE ParseErr
    [] tk.t = ":" ->
         IF mode = "" \/ mode = "slice"
         THEN parseArray(toks, pos + 1, indexes, "slice")
         ELSE ParseErr
    [] tk.t = "]" -> ArrayStep(indexes, mode, pos + 1)
    [] OTHER -> ParseErr

\* parser.parseArray, entered after the '[' token; pos is the next token
parseArray(toks, pos, indexes, mode) ==
  LET tk == Tok(toks, pos) IN
  CASE tk.t = "int" ->
         parseArraySep(toks, pos + 1, Append(indexes, N(tk.n)), mode)
    [] tk.t = "-" ->
         IF Tok(toks, pos + 1).t # "int" THEN ParseErr
         ELSE parseArraySep(toks, pos + 2,
                            Append(indexes, N(0 - Tok(toks, pos + 1).n)), mode)
    [] tk.t = "ident" ->
         parseArraySep(toks, pos + 1, Append(indexes, S(tk.s)), mode)
    [] tk.t = "string" ->
         parseArraySep(toks, pos + 1, Append(indexes, S(tk.s)), mode)
    [] tk.t = ":" ->
         IF mode = "" \/ mode = "slice"
         THEN parseArray(toks, pos + 1, Append(indexes, N(0)), "slice")
         ELSE ParseErr
    [] tk.t = "]" ->
         IF mode = "slice"
         THEN ArrayStep(Append(indexes, N(0)), mode, pos + 1)
         ELSE IF Len(indexes) = 0 THEN ParseErr
              ELSE ArrayStep(indexes, mode, pos + 1)
    [] OTHER -> ParseErr

\* parser.parseBracket, entered after the '[' token
parseBracket(toks, pos) ==
  IF Tok(toks, pos).t = "?" THEN ParseErr
  ELSE IF Tok(toks, pos).t = "*"
       THEN IF Tok(toks, pos + 1).t # "]" THEN ParseErr
            ELSE ParseOk(pos + 2, <<AWild>>)
       ELSE parseArray(toks, pos, <<>>, "")

\* parser.parseDeep, entered after the second '.' token
parseDeep(toks, pos) ==
  LET tk == Tok(toks, pos) IN
  CASE tk.t = "ident" -> ParseOk(pos + 1, <<ADeepParent, AAttr(tk.s)>>)
    [] tk.t = "[" ->
         LET b == parseBracket(toks, pos + 1) IN
         IF b.err THEN ParseErr ELSE ParseOk(b.pos, <<ADeepParent>> \o b.acts)
    [] tk.t = "*" -> ParseOk(pos + 1, <<ADeepChildren, APass>>)
    [] OTHER -> ParseErr

RECURSIVE parsePath(_, _, _)
\* parser.parsePath: one segment per turn of the loop
parsePath(toks, pos, as) ==
  LET tk == Tok(toks, pos)
      more(r) == IF r.err THEN ParseErr ELSE parsePath(toks, r.pos, as \o r.acts)
  IN
  CASE tk.t = "." ->
         LET nx == Tok(toks, pos + 1) IN
         CASE nx.t = "ident" -> parsePath(toks, pos + 2, Append(as, AAttr(nx.s)))
           [] nx.t = "*" -> parsePath(toks, pos + 2, Append(as, AWild))
           [] nx.t = "." -> more(parseDeep(toks, pos + 2))
           [] OTHER -> ParseErr
    [] tk.t = "[" -> more(parseBracket(toks, pos + 1))
    [] tk.t = "EOF" -> ParseOk(pos, Append(as, AEnd))
    [] OTHER -> ParseErr

\* parser.parse
parse(toks) ==
  IF Tok(toks, 1).t # "$" THEN ParseErr ELSE parsePath(toks, 2, <<>>)

(***************************************************************************)
(* Outcomes of running the actions.  st is "ok", "err" (an error value is  *)
(* returned), "panic" (the cty library panics) or "hang" (a loop that      *)
(* never ends).  marked tells that v carries the result mark.              *)
(***************************************************************************)
Ok(v) == [st |-> "ok", v |-> v, marked |-> FALSE]
OkMarked(e) == [st |-> "ok", v |-> T(e), marked |-> TRUE]
Err == [st |-> "err", v |-> NullV, marked |-> FALSE]
Panic == [st |-> "panic", v |-> NullV, marked |-> FALSE]
Hang == [st |-> "hang", v |-> NullV, marked |-> FALSE]
Aborts(o) == o.st \in {"panic", "hang"}

\* a caller that appends every returned value as one element
SpreadNested(o) == <<o.v>>

\* what a caller appends for one returned value: the members of a marked
\* tuple, or the value itself
Spread(o) == IF o.marked THEN o.v.e ELSE <<o.v>>

\* getInt on a Number
getInt(v) == v.n

negmax(n, max) ==
  IF n < 0
  THEN IF max + n < 0 THEN 0 ELSE max + n
  ELSE IF n > max THEN max ELSE n

\* left bound of prepareSlice
SliceL(indexes, len) == negmax(getInt(indexes[1]), len)

\* right bound of prepareSlice: a zero entry stands for the length
SliceR(indexes, len) ==
  IF getInt(indexes[2]) = 0 THEN len ELSE negmax(getInt(indexes[2]), len)

\* increment of prepareSlice
SliceM(indexes) == IF Len(indexes) = 3 THEN getInt(indexes[3]) ELSE 1

\* the largest value of the type int; the width of int is scaled to 16 bits
MaxInt == 32767

\* an int after an addition: Go wraps around on overflow
WrapInt(n) ==
  IF n > MaxInt THEN n - 2 * (MaxInt + 1)
  ELSE IF n < 0 - MaxInt - 1 THEN n + 2 * (MaxInt + 1) ELSE n

RECURSIVE SliceUp(_, _, _)
\* the indices visited by  for i := idxL; i < idxR; i += idxM  (idxM > 0)
SliceUp(i, idxR, idxM) ==
  IF i < idxR THEN <<i>> \o SliceUp(WrapInt(i + idxM), idxR, idxM) ELSE <<>>

RECURSIVE SliceDown(_, _, _)
\* the indices visited by  for i := idxR - 1; i >= idxL; i += idxM  (idxM < 0)
SliceDown(i, idxL, idxM) ==
  IF i >= idxL THEN <<i>> \o SliceDown(WrapInt(i + idxM), idxL, idxM) ELSE <<>>

\* the loop of prepareSlice never ends when the increment is zero and the
\* range is not empty
SliceLoops(idxL, idxR, idxM) == idxM = 0 /\ idxL < idxR

\* the index sequence of the slice loops of prepareSlice
SliceIndices(idxL, idxR, idxM) ==
  IF idxM < 0 THEN SliceDown(idxR - 1, idxL, idxM)
  ELSE IF idxM = 0 THEN <<>>
       ELSE SliceUp(idxL, idxR, idxM)

\* the values under the keys equal to key, in iteration order
Matching(c, key) ==
  LET ks == ElementKeys(c) IN
  SelectSeq([i \in DOMAIN ks |-> <<ks[i], c.e[i]>>],
            LAMBDA kv : CtyEquals(kv[1], key))

RECURSIVE Run(_, _), Fan(_, _, _), recSearchParent(_, _, _), recSearchKids(_, _, _)

\* the loop of a fan-out action over the candidates cs: every outcome is
\* spread into the output; an error skips the candidate, or ends the loop
\* with that error when fatal
Fan(a, cs, fatal) ==
  IF cs = <<>> THEN OkMarked(<<>>)
  ELSE LET o == Run(a, Head(cs)) IN
       IF Aborts(o) THEN o
       ELSE IF o.st = "err"
            THEN IF fatal THEN Err ELSE Fan(a, Tail(cs), fatal)
            ELSE LET r == Fan(a, Tail(cs), fatal) IN
                 IF r.st # "ok" THEN r ELSE OkMarked(Spread(o) \o r.v.e)

\* recSearchChildren, the loop over the elements of c
recSearchKids(a, cs, acc) ==
  IF cs = <<>> THEN OkMarked(acc)
  ELSE LET o == recSearchParent(a, Head(cs), acc) IN
       IF Aborts(o) THEN o ELSE recSearchKids(a, Tail(cs), o.v.e)

\* a search of the elements of c that does not go below them
recSearchChildrenShallow(a, c, acc) ==
  IF CanIterateElements(c)
  THEN LET r == Fan(a, c.e, FALSE) IN
       IF r.st = "ok" THEN OkMarked(acc \o r.v.e) ELSE r
  ELSE OkMarked(acc)

recSearchChildren(a, c, acc) ==
  IF CanIterateElements(c) THEN recSearchKids(a, c.e, acc) ELSE OkMarked(acc)

\* a search that visits the children of c before c itself
recSearchChildrenFirst(a, c, acc) ==
  LET r == recSearchChildren(a, c, acc) IN
  IF Aborts(r) THEN r
  ELSE LET o == Run(a, c) IN
       IF Aborts(o) THEN o
       ELSE OkMarked(IF o.st = "ok" THEN r.v.e \o Spread(o) ELSE r.v.e)

recSearchParent(a, c, acc) ==
  LET o == Run(a, c) IN
  IF Aborts(o) THEN o
  ELSE recSearchChildren(a, c, IF o.st = "ok" THEN acc \o Spread(o) ELSE acc)

\* an attribute access that takes a missing attribute for a null value
RunAttrOrNull(ident, c, a) ==
  IF IsObjectType(c)
  THEN IF ~HasAttribute(c, ident) THEN Run(a, NullV) ELSE Run(a, GetAttr(c, ident))
  ELSE IF CanIterateElements(c)
       THEN IF ~HasIndex(c, S(ident)) THEN Run(a, NullV)
            ELSE Run(a, Index(c, S(ident)))
       ELSE Err

\* parseObjAccess, the action
RunAttr(ident, c, a) ==
  IF IsObjectType(c)
  THEN IF ~HasAttribute(c, ident) THEN Err ELSE Run(a, GetAttr(c, ident))
  ELSE IF CanIterateElements(c)
       THEN IF ~HasIndex(c, S(ident)) THEN Err ELSE Run(a, Index(c, S(ident)))
       ELSE Err

\* prepareWildcard, the action
RunWildcard(c, a) ==
  IF CanIterateElements(c) THEN Fan(a, c.e, FALSE) ELSE Err

\* prepareIndex, the action
RunIndex(index, c, a) ==
  IF CanIterateElements(c)
  THEN LET m == Matching(c, index) IN
       IF m = <<>> THEN Err ELSE Run(a, m[1][2])
  ELSE Err

\* prepareSlice, the action
RunSlice(indexes, c, a) ==
  IF \E i \in DOMAIN indexes : indexes[i].k # "num" THEN Err
  ELSE IF ~CanIterateElements(c) THEN Panic
  ELSE LET idxL == SliceL(indexes, LengthInt(c))
           idxR == SliceR(indexes, LengthInt(c))
           idxM == SliceM(indexes)
           slice == AsValueSlice(c)
           is == SliceIndices(idxL, idxR, idxM)
           outside == {j \in DOMAIN is : is[j] < 0 \/ is[j] >= Len(slice)}
           inside == IF outside = {} THEN is
                     ELSE SubSeq(is, 1, (CHOOSE j \in outside :
                                           \A k \in outside : j <= k) - 1)
           o == Fan(a, [j \in DOMAIN inside |-> slice[inside[j] + 1]], FALSE)
       IN
       IF SliceLoops(idxL, idxR, idxM)
       THEN IF Run(a, slice[idxL + 1]).st = "panic" THEN Panic ELSE Hang
       ELSE IF outside = {} \/ Aborts(o) THEN o
            ELSE Panic   \* slice[i] with i outside the slice

\* a union that walks the elements in the order of the container and
\* takes each element whose key is listed, once
RunUnionInContainerOrder(indexes, c, a) ==
  IF CanIterateElements(c)
  THEN LET ks == ElementKeys(c)
           hit == SelectSeq([i \in DOMAIN ks |-> <<ks[i], c.e[i]>>],
                            LAMBDA kv : \E j \in DOMAIN indexes :
                                          CtyEquals(kv[1], indexes[j]))
       IN Fan(a, [j \in DOMAIN hit |-> hit[j][2]], TRUE)
  ELSE Err

\* prepareUnion, the action
RunUnion(indexes, c, a) ==
  IF CanIterateElements(c)
  THEN LET ms == [j \in DOMAIN indexes |-> Matching(c, indexes[j])]
           hit == SelectSeq(ms, LAMBDA m : m # <<>>)
       IN Fan(a, [j \in DOMAIN hit |-> hit[j][1][2]], TRUE)
  ELSE Err

\* actions.next: the first action applied to c with the others to follow
Run(a, c) ==
  LET h == Head(a)
      rest == Tail(a)
  IN
  CASE h.t = "end" -> Ok(c)
    [] h.t = "attr" -> RunAttr(h.ident, c, rest)
    [] h.t = "wild" -> RunWildcard(c, rest)
    [] h.t = "deepParent" -> recSearchParent(rest, c, <<>>)
    [] h.t = "deepChildren" -> recSearchChildren(rest, c, <<>>)
    [] h.t = "pass" -> Run(rest, c)
    [] h.t = "index" -> RunIndex(h.index, c, rest)
    [] h.t = "slice" -> RunSlice(h.indexes, c, rest)
    [] h.t = "union" -> RunUnion(h.indexes, c, rest)

(***************************************************************************)
(* The registries of the filter evaluator (part_001): the tables           *)
(* priority, rightOp, operations, functions and constants as the package   *)
(* initialises them.  Of the numeric functions only length and not are     *)
(* kept.                                                                   *)
(***************************************************************************)
\* priority: the precedence of the binary operators
priority(o) ==
  CASE o = "**" -> 6
    [] o \in {"*", "/", "%", "<<", ">>", "&", "&^"} -> 5
    [] o \in {"+", "-", "|", "^"} -> 4
    [] o \in {"==", "!=", "<", "<=", ">", ">=", "=~"} -> 3
    [] o = "&&" -> 2
    [] o = "||" -> 1
    [] OTHER -> 0

rightOp(o) == o = "**"

\* the operators with an entry in priority
PriorityNames ==
  {"**", "*", "/", "%", "<<", ">>", "&", "&^", "+", "-", "|", "^",
   "==", "!=", "<", "<=", ">", ">=", "=~", "&&", "||"}

\* the first characters of the operators, priorityChar
PriorityChars == {"*", "/", "%", "<", ">", "&", "|", "^", "+", "-", "=", "!"}

\* the operators with an entry in operations
OperationNames ==
  {"*", "/", "%", "+", "-", "==", "!=", "=~", "<", "<=", ">", ">=", "&&", "||"}

\* the functions with an entry in functions
FunctionNames == {"length", "not"}

\* constants
ConstantNames == {"true", "false"}
constants(c) == B(c = "true")

\* the registries after the initialisation of the package; an entry of
\* functions and operations is "builtin" for the code of the package
InitialRegistry ==
  [priority |-> [o \in PriorityNames |-> priority(o)],
   priorityChar |-> PriorityChars,
   rightOp |-> {o \in PriorityNames : rightOp(o)},
   operations |-> [o \in OperationNames |-> "builtin"],
   functions |-> [f \in FunctionNames |-> "builtin"],
   constants |-> [c \in ConstantNames |-> constants(c)]]

(***************************************************************************)
(* Inputs: root values and path texts (token sequences).                   *)
(***************************************************************************)
RootA ==
  O(<<"A", "B", "D">>,
    <<T(<<S("s"), N(1), NullV>>),
      S("v"),
      O(<<"C", "V">>, <<N(2), T(<<S("a"), O(<<"C">>, <<N(3)>>)>>)>>)>>)

RootB ==
  T(<<O(<<"A">>, <<N(1)>>),
      O(<<"A", "B">>, <<T(<<N(5), N(6)>>), N(2)>>),
      T(<<N(10), N(11), N(12)>>)>>)

RootC ==
  O(<<"A", "B">>,
    <<O(<<"A", "C">>, <<N(7), O(<<"A">>, <<N(8)>>)>>),
      M(<<"A", "C">>, <<N(4), N(9)>>)>>)

Roots == <<RootA, RootB, RootC>>

\* the list roots the slice inputs are applied to: 0 .. n-1 times ten
ListOf(n) == T([i \in 1..n |-> N(10 * (i - 1))])

\* the tokens of an optional integer: <<>> is an omitted entry
NumToks(opt) ==
  IF opt = <<>> THEN <<>>
  ELSE IF opt[1] < 0 THEN <<TMinus, TInt(0 - opt[1])>> ELSE <<TInt(opt[1])>>

Opt(S1) == {<<>>} \cup {<<n>> : n \in S1}

\* the tokens of [s:e]
SliceToks2(s, e) ==
  <<TLBr>> \o NumToks(s) \o <<TColon>> \o NumToks(e) \o <<TRBr>>

\* the tokens of [s:e:st]
SliceToks3(s, e, st) ==
  <<TLBr>> \o NumToks(s) \o <<TColon>> \o NumToks(e) \o <<TColon>>
    \o NumToks(st) \o <<TRBr>>

Segs ==
  << <<TDot, TIdent("A")>>,
     <<TDot, TIdent("B")>>,
     <<TDot, TIdent("C")>>,
     <<TDot, TIdent("Z")>>,
     <<TDot, TStar>>,
     <<TLBr, TStar, TRBr>>,
     <<TDot, TDot, TIdent("A")>>,
     <<TDot, TDot, TIdent("C")>>,
     <<TDot, TDot, TStar>>,
     <<TDot, TDot, TLBr, TInt(0), TRBr>>,
     <<TDot, TDot, TLBr, TString("A"), TComma, TInt(1), TRBr>>,
     <<TLBr, TInt(0), TRBr>>,
     <<TLBr, TInt(1), TRBr>>,
     <<TLBr, TMinus, TInt(1), TRBr>>,
     <<TLBr, TString("A"), TRBr>>,
     <<TLBr, TString("A"), TComma, TString("B"), TRBr>>,
     <<TLBr, TString("B"), TComma, TString("Z"), TComma, TString("A"), TRBr>>,
     <<TLBr, TString("B"), TComma, TString("B"), TRBr>>,
     <<TLBr, TInt(1), TComma, TInt(0), TRBr>>,
     <<TLBr, TInt(0), TColon, TInt(2), TRBr>>,
     <<TLBr, TInt(1), TColon, TRBr>>,
     <<TLBr, TColon, TColon, TMinus, TInt(1), TRBr>>,
     <<TLBr, TInt(0), TColon, TInt(2), TColon, TInt(0), TRBr>>,
     <<TLBr, TInt(0), TColon, TInt(1), TComma, TInt(2), TRBr>>,
     <<TDot, TDot>> >>

RECURSIVE Flat(_)
\* the concatenation of a sequence of token sequences
Flat(ss) == IF ss = <<>> THEN <<>> ELSE Head(ss) \o Flat(Tail(ss))

\* path texts of up to MaxSegs segments after the '$'
SegPaths ==
  UNION {{<<TDollar>> \o Flat([i \in 1..n |-> Segs[f[i]]]) :
            f \in [1..n -> DOMAIN Segs]} : n \in 0..MaxSegs}

\* the tokens of [a:b:c:d], a bracket with three colons
SliceToks4(a, b, c, d) ==
  <<TLBr>> \o NumToks(a) \o <<TColon>> \o NumToks(b) \o <<TColon>>
    \o NumToks(c) \o <<TColon>> \o NumToks(d) \o <<TRBr>>

\* path texts  $[a:b:c:d]
LongSlicePaths ==
  {<<TDollar>> \o SliceToks4(a, b, c, d) :
     a \in Opt(0..1), b \in Opt(0..1), c \in Opt(0..1), d \in Opt(0..1)}

\* path texts of one bracket with both separators, or with a comma and one
\* entry:  $[0,1:2]  $[:,]  $[1,]
BracketPaths ==
  {<<TDollar, TLBr, TInt(0), TComma, TInt(1), TColon, TInt(2), TRBr>>,
   <<TDollar, TLBr, TColon, TComma, TRBr>>,
   <<TDollar, TLBr, TInt(1), TComma, TRBr>>}

\* path texts  $[s::st]  with the largest int as st
OverflowSlicePaths ==
  {<<TDollar>> \o SliceToks3(s, <<>>, <<MaxInt>>) : s \in Opt(0..1)}

\* path texts  $[s:e]  and  $[s:e:st]
SlicePaths ==
  {<<TDollar>> \o SliceToks2(s, e) :
     s \in Opt(-MaxIdx..MaxIdx), e \in Opt(-MaxIdx..MaxIdx)}
  \cup
  {<<TDollar>> \o SliceToks3(s, e, st) :
     s \in Opt(-MaxIdx..MaxIdx), e \in Opt(-MaxIdx..MaxIdx),
     st \in Opt(-MaxStep..MaxStep)}

NoOut == [st |-> "none", v |-> NullV, marked |-> FALSE]

(***************************************************************************)
(* Read/Prepare: Prepare compiles the path, the FilterFunc it returns is   *)
(* applied to the root.                                                    *)
(***************************************************************************)
InitRead ==
  /\ pc = "init"
  /\ registry = InitialRegistry
  /\ acts = <<>>
  /\ out = NoOut
  /\ \/ /\ root \in {Roots[i] : i \in DOMAIN Roots}
        /\ path \in SegPaths \cup BracketPaths
     \/ /\ root \in {ListOf(n) : n \in 0..MaxLen}
        /\ path \in SlicePaths \cup LongSlicePaths \cup OverflowSlicePaths

\* Prepare(path)
Prepare ==
  /\ pc = "init"
  /\ LET r == parse(path) IN
     IF r.err
     THEN /\ pc' = "failed"
          /\ out' = Err
          /\ acts' = acts
     ELSE /\ pc' = "prepared"
          /\ acts' = r.acts
          /\ out' = out
  /\ UNCHANGED <<root, path, registry>>

\* where a call is once it has run: returned, crashed in a panic, or
\* caught in a loop that never ends
After(st) ==
  IF st = "panic" THEN "crashed" ELSE IF st = "hang" THEN "hung" ELSE "done"

\* parser.prepareFilterFunc: the FilterFunc applied to the root
Filter ==
  /\ pc = "prepared"
  /\ pc' = After(Run(acts, root).st)
  /\ out' = [Run(acts, root) EXCEPT !.marked = FALSE]
  /\ UNCHANGED <<root, path, acts, registry>>

NextRead == Prepare \/ Filter

SpecRead == InitRead /\ [][NextRead]_vars

(***************************************************************************)
(* JSONPath.Evaluate: the PathSteps compiled from the path are applied one *)
(* after the other to a ValueContainer of values and their cty.Paths.      *)
(***************************************************************************)
GetAttrStep(name) == [t |-> "GetAttr", name |-> name]
IndexStep(key) == [t |-> "Index", key |-> key]

\* cty.GetAttrStep.Apply and cty.IndexStep.Apply
StepApply(step, v) ==
  IF step.t = "GetAttr"
  THEN IF HasAttribute(v, step.name)
       THEN [ok |-> TRUE, v |-> GetAttr(v, step.name)]
       ELSE [ok |-> FALSE, v |-> NullV]
  ELSE IF /\ \/ step.key.k = "num" /\ IsIndexed(v)
             \/ step.key.k = "str" /\ IsMapType(v)
          /\ HasIndex(v, step.key)
       THEN [ok |-> TRUE, v |-> Index(v, step.key)]
       ELSE [ok |-> FALSE, v |-> NullV]

\* makeStep: the one-step path for index under value, <<>> on its error
makeStep(value, index) ==
  IF IsObjectType(value)
  THEN IF index.k # "str" THEN <<>> ELSE <<GetAttrStep(index.s)>>
  ELSE <<IndexStep(index)>>

\* makeStepVal
makeStepVal(value, index) ==
  LET p == makeStep(value, index) IN
  IF p = <<>> THEN [ok |-> FALSE, v |-> NullV] ELSE StepApply(p[1], value)

RECURSIVE Walk(_, _), WalkKids(_, _, _)
\* cty.Walk: every nested value with its path, the value itself first
Walk(p, val) ==
  <<[p |-> p, v |-> val]>> \o
    (IF CanIterateElements(val) THEN WalkKids(p, val, 1) ELSE <<>>)

WalkKids(p, val, i) ==
  IF i > Len(val.e) THEN <<>>
  ELSE Walk(Append(p, IF IsObjectType(val)
                      THEN GetAttrStep(val.keys[i])
                      ELSE IndexStep(ElementKeys(val)[i])),
            val.e[i])
       \o WalkKids(p, val, i + 1)

\* the PathStep closures: the indices a step asks for under val
PathStepOf(a, val) ==
  CASE a.t = "attr" -> [st |-> "ok", indices |-> <<S(a.ident)>>, flatten |-> TRUE]
    [] a.t = "index" -> [st |-> "ok", indices |-> <<a.index>>, flatten |-> TRUE]
    [] a.t = "union" -> [st |-> "ok", indices |-> a.indexes, flatten |-> FALSE]
    [] a.t = "wild" ->
         IF CanIterateElements(val)
         THEN [st |-> "ok", indices |-> ElementKeys(val), flatten |-> FALSE]
         ELSE [st |-> "panic", indices |-> <<>>, flatten |-> FALSE]
    [] a.t = "slice" ->
         IF ~CanIterateElements(val)
         THEN [st |-> "panic", indices |-> <<>>, flatten |-> FALSE]
         ELSE LET idxL == SliceL(a.indexes, LengthInt(val))
                  idxR == SliceR(a.indexes, LengthInt(val))
                  idxM == SliceM(a.indexes)
                  is == SliceIndices(idxL, idxR, idxM)
              IN
              IF SliceLoops(idxL, idxR, idxM)
              THEN [st |-> "hang", indices |-> <<>>, flatten |-> FALSE]
              ELSE [st |-> "ok", indices |-> [j \in DOMAIN is |-> N(is[j])],
                    flatten |-> FALSE]

\* the list of PathSteps the actions build: a recursive scan is the nil
\* entry, a slice whose entries are not all numbers fails the build
BuildSteps(as) ==
  IF \E j \in DOMAIN as :
       as[j].t = "slice" /\ \E i \in DOMAIN as[j].indexes : as[j].indexes[i].k # "num"
  THEN [err |-> TRUE, steps |-> <<>>]
  ELSE [err |-> FALSE,
        steps |-> SelectSeq(as, LAMBDA a : a.t \notin {"pass", "end"})]

IsNilStep(a) == a.t \in {"deepParent", "deepChildren"}

\* the value the step is applied to
InputVal(V) ==
  IF V.flatten /\ Len(V.Values) = 1 THEN V.Values[1] ELSE T(V.Values)

\* a value with the path reported for it
Pair(v, p) == [v |-> v, p |-> p]

\* res after the appends of one turn of the loop
ValuesOf(prs) == [j \in DOMAIN prs |-> prs[j].v]

\* a turn that reports one path for all the values it appends
PathsOfFirst(prs) == IF prs = <<>> THEN <<>> ELSE <<prs[1].p>>

\* paths after the appends of one turn of the loop
PathsOf(prs) == [j \in DOMAIN prs |-> prs[j].p]

\* the pairs one index contributes in the loop body of Evaluate; base is
\* V.Paths[i], read only when a pair is produced
KeyPairs(inputVal, keyCty, base) ==
  IF IsObjectType(inputVal)
  THEN LET r == makeStepVal(inputVal, keyCty) IN
       IF r.ok THEN <<Pair(r.v, base \o makeStep(inputVal, keyCty))>> ELSE <<>>
  ELSE IF IsIndexed(inputVal) /\ keyCty.k # "num"
       THEN LET rs == [j \in DOMAIN inputVal.e |->
                         [r |-> makeStepVal(inputVal.e[j], keyCty), j |-> j]]
                hit == SelectSeq(rs, LAMBDA x : x.r.ok)
            IN [j \in DOMAIN hit |->
                  Pair(hit[j].r.v,
                       Append(base, IndexStep(N(hit[j].j - 1)))
                         \o makeStep(inputVal, keyCty))]
       ELSE LET r == makeStepVal(inputVal, keyCty) IN
            IF r.ok THEN <<Pair(r.v, base \o makeStep(inputVal, keyCty))>>
            ELSE <<>>

\* whether the index switches flatten off in the loop body
KeyUnflattens(inputVal, keyCty) ==
  ~IsObjectType(inputVal) /\ IsIndexed(inputVal) /\ keyCty.k # "num"

\* one turn of the loop  for i, item := range result  of Evaluate; i counts
\* from 0 and V.Paths[i] is read with that same i
EvalTurn(V, item, i) ==
  IF IsNilStep(item)
  THEN LET ws == Flat([j \in DOMAIN V.Values |-> Walk(V.Paths[j], V.Values[j])])
       IN [st |-> "ok",
           Values |-> ValuesOf(ws),
           Paths |-> PathsOf(ws),
           flatten |-> FALSE]
  ELSE LET inputVal == InputVal(V)
           ps == PathStepOf(item, inputVal)
           base == IF i + 1 <= Len(V.Paths) THEN V.Paths[i + 1] ELSE <<>>
           prs == Flat([j \in DOMAIN ps.indices |->
                          KeyPairs(inputVal, ps.indices[j], base)])
       IN
       IF ps.st # "ok"
       THEN [st |-> ps.st, Values |-> <<>>, Paths |-> <<>>, flatten |-> FALSE]
       ELSE IF prs # <<>> /\ i + 1 > Len(V.Paths)
            THEN [st |-> "panic", Values |-> <<>>, Paths |-> <<>>,
                  flatten |-> FALSE]
            ELSE [st |-> "ok",
                  Values |-> ValuesOf(prs),
                  Paths |-> PathsOf(prs),
                  flatten |-> ps.flatten /\
                              ~\E j \in DOMAIN ps.indices :
                                  KeyUnflattens(inputVal, ps.indices[j])]

\* the ValueContainer of the loop, with the loop index i and the outcome
Container(st, Values, Paths, flatten, i) ==
  [st |-> st, Values |-> Values, Paths |-> Paths, flatten |-> flatten, i |-> i]

InitEvaluate ==
  /\ pc = "init"
  /\ registry = InitialRegistry
  /\ acts = <<>>
  /\ out = NoOut
  /\ root \in {Roots[i] : i \in DOMAIN Roots}
  /\ path \in SegPaths

\* Evaluate up to its loop: the path is parsed and the PathSteps are built
EvalParse ==
  /\ pc = "init"
  /\ LET r == parse(path)
         b == BuildSteps(r.acts)
     IN
     IF r.err
     THEN /\ pc' = "done"
          /\ out' = Container("err", <<>>, <<>>, FALSE, 0)
          /\ acts' = acts
     ELSE IF b.err
          THEN /\ pc' = "done"
               /\ out' = Container("err", <<root>>, <<<<>>>>, TRUE, 0)
               /\ acts' = acts
          ELSE /\ pc' = "loop"
               /\ out' = Container("ok", <<root>>, <<<<>>>>, TRUE, 0)
               /\ acts' = b.steps
  /\ UNCHANGED <<root, path, registry>>

\* one turn of the loop of Evaluate
EvalStep ==
  /\ pc = "loop"
  /\ out.i < Len(acts)
  /\ LET t == EvalTurn(out, acts[out.i + 1], out.i) IN
     IF t.st # "ok"
     THEN /\ pc' = After(t.st)
          /\ out' = Container(t.st, <<>>, <<>>, FALSE, out.i)
     ELSE /\ pc' = "loop"
          /\ out' = Container("ok", t.Values, t.Paths, t.flatten, out.i + 1)
  /\ UNCHANGED <<root, path, acts, registry>>

\* the return of Evaluate after the last step
EvalReturn ==
  /\ pc = "loop"
  /\ out.i = Len(acts)
  /\ pc' = "done"
  /\ UNCHANGED <<root, path, acts, out, registry>>

NextEvaluate == EvalParse \/ EvalStep \/ EvalReturn

SpecEvaluate == InitEvaluate /\ [][NextEvaluate]_vars

(***************************************************************************)
(* Apply (obj.go): the commands of a path are evaluated against a value.   *)
(* A command is held as the record the tokenizer reads from its text.      *)
(***************************************************************************)
CRoot == [t |-> "$"]
CAt == [t |-> "@"]
CDeep == [t |-> ".."]
CWild == [t |-> "*"]
CFilter(expr) == [t |-> "filter", expr |-> expr]
CKeys(keys) == [t |-> "keys", keys |-> keys]

\* tokens of a filter predicate
XPath(cmds) == [k |-> "path", cmds |-> cmds]
XQuoted(s) == [k |-> "quoted", s |-> s]
XNumber(n) == [k |-> "number", n |-> n]
XWord(s) == [k |-> "word", s |-> s]
XOp(s) == [k |-> "op", s |-> s]
\* the call  f(toks)  of a function
XCall(f, toks) == [k |-> "call", f |-> f, toks |-> toks]

RECURSIVE PopOps(_, _, _)
\* shunting-yard: the operators on the stack that leave before cur enters
PopOps(stack, cur, res) ==
  IF stack # <<>> /\
     \/ priority(stack[Len(stack)].s) > priority(cur.s)
     \/ priority(stack[Len(stack)].s) = priority(cur.s) /\ ~rightOp(cur.s)
  THEN PopOps(SubSeq(stack, 1, Len(stack) - 1), cur, Append(res, stack[Len(stack)]))
  ELSE [stack |-> Append(stack, cur), res |-> res]

RECURSIVE Reverse(_)
Reverse(q) == IF q = <<>> THEN <<>> ELSE Append(Reverse(Tail(q)), Head(q))

RECURSIVE RpnFrom(_, _, _)
\* tokenizer.rpn: the predicate in postfix order
RpnFrom(toks, stack, res) ==
  IF toks = <<>> THEN res \o Reverse(stack)
  ELSE IF Head(toks).k = "op"
       THEN LET r == PopOps(stack, Head(toks), res) IN
            RpnFrom(Tail(toks), r.stack, r.res)
       ELSE IF Head(toks).k = "call"
       THEN \* the function leaves the stack at its closing parenthesis
            RpnFrom(Tail(toks), stack,
                    res \o RpnFrom(Head(toks).toks, <<>>, <<>>)
                        \o <<XWord(Head(toks).f)>>)
       ELSE RpnFrom(Tail(toks), stack, Append(res, Head(toks)))

rpn(toks) == RpnFrom(toks, <<>>, <<>>)

\* outcomes of the filter evaluator and of the commands
EvOk(v) == [st |-> "ok", v |-> v, nil |-> FALSE]
EvNil == [st |-> "ok", v |-> NullV, nil |-> TRUE]
EvErr == [st |-> "err", v |-> NullV, nil |-> TRUE]
EvPanic == [st |-> "panic", v |-> NullV, nil |-> TRUE]

CmdOk(result) == [st |-> "ok", result |-> result]
CmdErr == [st |-> "err", result |-> <<>>]
CmdPanic == [st |-> "panic", result |-> <<>>]

validPrimitives(left, right) ==
  /\ ~IsNull(left) /\ ~IsNull(right)
  /\ IsPrimitiveType(left) /\ IsPrimitiveType(right)

BothNum(left, right) == left.k = "num" /\ right.k = "num"
BothBool(left, right) == left.k = "bool" /\ right.k = "bool"

\* the numeric cty operation behind a guarded entry of operations
NumOp(o, l, r) ==
  CASE o = "+" -> N(l + r)
    [] o = "-" -> N(l - r)
    [] o = "*" -> N(l * r)
    [] o = "<" -> B(l < r)
    [] o = "<=" -> B(l <= r)
    [] o = ">" -> B(l > r)
    [] o = ">=" -> B(l >= r)

\* operations[o](left, right); the cty arithmetic and ordering methods
\* panic on operands that are not numbers, And and Or on operands that are
\* not booleans
\* (the entries "/", "%" and "=~" are not used by the predicates below)
operations(o, left, right) ==
  CASE o \in {"*", "+", "-", "<", "<=", ">", ">="} ->
         IF ~validPrimitives(left, right) THEN EvErr
         ELSE IF BothNum(left, right) THEN EvOk(NumOp(o, left.n, right.n))
              ELSE EvPanic
    [] o = "==" -> EvOk(B(left = right))
    [] o = "!=" -> EvOk(B(left # right))
    [] o = "&&" ->
         IF BothBool(left, right) THEN EvOk(B(left.b /\ right.b)) ELSE EvPanic
    [] o = "||" ->
         IF BothBool(left, right) THEN EvOk(B(left.b \/ right.b)) ELSE EvPanic

\* functions[f](node)
functions(f, node) ==
  CASE f = "length" ->
         IF IsNull(node) THEN EvErr
         ELSE IF node.k = "str" THEN EvOk(N(Len(node.s)))
         ELSE IF CanIterateElements(node) THEN EvOk(N(Len(node.e)))
              ELSE EvPanic
    [] f = "not" -> EvPanic

isArray(val) == IsListType(val) \/ IsTupleType(val)
isObject(val) == IsMapType(val) \/ IsObjectType(val)

RECURSIVE recursiveChildren(_)
recursiveChildren(node) ==
  LET result == IF IsListType(node) THEN AsValueSlice(node) ELSE <<>> IN
  result \o Flat([i \in DOMAIN result |-> recursiveChildren(result[i])])

getPositiveIndex(index, count) == IF index < 0 THEN index + count ELSE index

RECURSIVE SameType(_, _)
\* whether two values have the same cty type (a null takes any type)
SameType(a, b) ==
  IF IsNull(a) \/ IsNull(b) THEN TRUE
  ELSE IF a.k # b.k THEN FALSE
  ELSE IF IsPrimitiveType(a) THEN TRUE
  ELSE IF IsObjectType(a)
       THEN /\ a.keys = b.keys
            /\ \A i \in DOMAIN a.e : SameType(a.e[i], b.e[i])
  ELSE IF IsTupleType(a)
       THEN /\ Len(a.e) = Len(b.e)
            /\ \A i \in DOMAIN a.e : SameType(a.e[i], b.e[i])
  ELSE \A i \in DOMAIN a.e : \A j \in DOMAIN b.e : SameType(a.e[i], b.e[j])

\* cty.ListVal panics unless its elements have one type
Homogeneous(e) == \A i \in DOMAIN e : \A j \in DOMAIN e : SameType(e[i], e[j])

\* the text of a key of a key command: a name, or the digits of an index
KeyText(key) == IF key.k = "str" THEN key.s ELSE ToString(key.n)

\* the name an instruction is looked up by in functions and operations
ExpName(exp) == IF exp.k \in {"word", "op"} THEN exp.s ELSE ""

RECURSIVE evalFrom(_, _, _), evaluateFrom(_, _, _, _, _, _),
          filterElems(_, _, _, _), keyLoop(_, _, _, _, _)

\* an eval that returns the value on top of the stack whatever the number
\* of values left
evalEndTop(stack) ==
  IF Len(stack) = 0 THEN EvNil ELSE EvOk(stack[Len(stack)])

\* eval after the last instruction: the value left on the stack
evalEnd(stack) ==
  IF Len(stack) = 1 THEN EvOk(stack[1])
  ELSE IF Len(stack) = 0 THEN EvNil ELSE EvErr

\* one turn of the loop of eval: eval returns r, or goes on with the stack
EvReturn(r) == [done |-> TRUE, r |-> r, stack |-> <<>>]
EvNext(stack) == [done |-> FALSE, r |-> EvNil, stack |-> stack]

\* eval: the instruction exp met with the stack
evalStep(node, exp, stack) ==
  LET size == Len(stack) IN
  IF ExpName(exp) \in FunctionNames
  THEN IF size < 1 THEN EvReturn(EvErr)
       ELSE LET r == functions(exp.s, stack[size]) IN
            IF r.st # "ok" THEN EvReturn(r)
            ELSE EvNext([stack EXCEPT ![size] = r.v])
  ELSE IF ExpName(exp) \in OperationNames
  THEN IF size < 2 THEN EvReturn(EvErr)
       ELSE LET r == operations(exp.s, stack[size - 1], stack[size]) IN
            IF r.st # "ok" THEN EvReturn(r)
            ELSE EvNext(Append(SubSeq(stack, 1, size - 2), r.v))
  ELSE IF exp.k = "path"
  THEN LET r == evaluateFrom(node, exp.cmds, 0, <<>>, FALSE, NullV) IN
       IF r.st = "err" THEN EvReturn(EvErr)
       ELSE IF r.st = "panic" THEN EvReturn(EvPanic)
       ELSE IF Len(r.result) > 1
            THEN IF Homogeneous(r.result) THEN EvNext(Append(stack, L(r.result)))
                 ELSE EvReturn(EvPanic)
            ELSE IF Len(r.result) = 1 THEN EvNext(Append(stack, r.result[1]))
                 ELSE EvReturn(EvNil)
  ELSE IF exp.k = "word" /\ exp.s \in ConstantNames
  THEN EvNext(Append(stack, constants(exp.s)))
  ELSE IF exp.k = "quoted" THEN EvNext(Append(stack, S(exp.s)))
  ELSE EvReturn(EvErr)

\* eval: the instructions from the first of expression on, with the stack
\* (the turn t is bound to its value before the next turn starts from it)
evalFrom(node, expression, stack) ==
  IF expression = <<>> THEN evalEnd(stack)
  ELSE CHOOSE r \in
         {IF t.done THEN t.r ELSE evalFrom(node, Tail(expression), t.stack) :
            t \in {evalStep(node, Head(expression), stack)}} : TRUE

\* eval
eval(node, expression) == evalFrom(node, expression, <<>>)

\* a filter loop that keeps every element whose predicate is not null and
\* not false
filterElemsNotFalse(elems, expr, Lacc, last) ==
  IF elems = <<>> THEN [st |-> "ok", L |-> Lacc, last |-> last]
  ELSE LET r == eval(Head(elems), expr) IN
       IF r.st # "ok" THEN [st |-> r.st, L |-> <<>>, last |-> last]
       ELSE IF r.nil \/ IsNull(r.v) \/ r.v = B(FALSE)
            THEN filterElems(Tail(elems), expr, Lacc, r.v)
            ELSE filterElems(Tail(elems), expr, Append(Lacc, Head(elems)), r.v)

\* the loop of the filter case over the elements of the arrays; last is
\* the value the latest eval left in the variable value
filterElems(elems, expr, Lacc, last) ==
  IF elems = <<>> THEN [st |-> "ok", L |-> Lacc, last |-> last]
  ELSE LET r == eval(Head(elems), expr) IN
       IF r.st = "err" THEN [st |-> "err", L |-> <<>>, last |-> last]
       ELSE IF r.st = "panic" THEN [st |-> "panic", L |-> <<>>, last |-> last]
       ELSE IF r.nil \/ IsNull(r.v) \/ r.v.k # "bool"
            THEN filterElems(Tail(elems), expr, Lacc, r.v)
            ELSE IF ~r.v.b THEN filterElems(Tail(elems), expr, Lacc, r.v)
                 ELSE filterElems(Tail(elems), expr, Append(Lacc, Head(elems)), r.v)

\* the filter case of evaluateCommands over the whole working set
filterCase(result, expr, value) ==
  LET arrays == SelectSeq(result, isArray)
      r == filterElems(Flat([i \in DOMAIN arrays |-> AsValueSlice(arrays[i])]),
                       expr, <<>>, value)
  IN
  IF r.st = "err" THEN [st |-> "err", result |-> <<>>, value |-> value]
  ELSE IF r.st = "panic" THEN [st |-> "panic", result |-> <<>>, value |-> value]
  ELSE IF Len(r.L) = 0 THEN [st |-> "ok", result |-> <<>>, value |-> r.last]
       ELSE IF Homogeneous(r.L)
            THEN [st |-> "ok", result |-> <<L(r.L)>>, value |-> r.last]
            ELSE [st |-> "panic", result |-> <<>>, value |-> value]

\* the body of the key loops of the default case for one key and element
keyOne(key, element, ok, value) ==
  IF isArray(element)
  THEN IF key = S("length")
       THEN [st |-> "ok", ok |-> TRUE, value |-> N(Len(element.e)), cont |-> FALSE]
       ELSE IF key.k # "num" \/ Len(element.e) = 0
            THEN [st |-> "ok", ok |-> FALSE, value |-> value, cont |-> FALSE]
            ELSE LET num == getPositiveIndex(key.n, Len(element.e)) IN
                 IF ~HasIndex(element, N(num))
                 THEN [st |-> "ok", ok |-> FALSE, value |-> value, cont |-> FALSE]
                 ELSE [st |-> "ok", ok |-> TRUE, value |-> element.e[num + 1],
                       cont |-> FALSE]
  ELSE IF isObject(element)
       THEN IF IsMapType(element)
            THEN IF ~HasIndex(element, S(KeyText(key)))
                 THEN [st |-> "ok", ok |-> FALSE, value |-> value, cont |-> TRUE]
                 ELSE [st |-> "panic", ok |-> FALSE, value |-> value, cont |-> TRUE]
            ELSE IF ~HasAttribute(element, KeyText(key))
                 THEN [st |-> "ok", ok |-> FALSE, value |-> value, cont |-> TRUE]
                 ELSE [st |-> "ok", ok |-> TRUE,
                       value |-> GetAttr(element, KeyText(key)), cont |-> FALSE]
       ELSE [st |-> "ok", ok |-> ok, value |-> value, cont |-> FALSE]

\* an order of the key loops with the elements outermost
keyPairsByElement(keys, result) ==
  Flat([j \in DOMAIN result |-> [k \in DOMAIN keys |-> <<keys[k], result[j]>>]])

\* the order of the key loops of the default case: every key with every
\* element of the working set, the keys outermost
keyPairs(keys, result) ==
  Flat([k \in DOMAIN keys |-> [j \in DOMAIN result |-> <<keys[k], result[j]>>]])

\* the key loops of the default case: pairs lists every key with every
\* element of the working set, the keys outermost
keyLoop(pairs, temporary, ok, value, j) ==
  IF j > Len(pairs) THEN [st |-> "ok", temporary |-> temporary, ok |-> ok,
                          value |-> value]
  ELSE LET r == keyOne(pairs[j][1], pairs[j][2], ok, value) IN
       IF r.st # "ok" THEN [st |-> r.st, temporary |-> <<>>, ok |-> ok,
                            value |-> value]
       ELSE IF r.cont \/ ~r.ok
            THEN keyLoop(pairs, temporary, r.ok, r.value, j + 1)
            ELSE keyLoop(pairs, Append(temporary, r.value), FALSE, r.value, j + 1)

\* evaluateCommands from command i (counted from 0) on
\* (the commands below hold no slice, so the slice case is left out)
evaluateFrom(val, commands, i, result, ok, value) ==
  IF i >= Len(commands) THEN CmdOk(result)
  ELSE
  LET cmd == commands[i + 1]
      more(res, k, v) == evaluateFrom(val, commands, i + 1, res, k, v)
  IN
  CASE cmd.t \in {"$", "@"} ->
         more(IF i = 0 THEN Append(result, val) ELSE result, ok, value)
    [] cmd.t = ".." ->
         more(result \o Flat([j \in DOMAIN result |-> recursiveChildren(result[j])]),
              ok, value)
    [] cmd.t = "*" ->
         LET arrays == SelectSeq(result, isArray) IN
         more(Flat([j \in DOMAIN arrays |-> AsValueSlice(arrays[j])]), ok, value)
    [] cmd.t = "filter" ->
         LET r == filterCase(result, rpn(cmd.expr), value) IN
         IF r.st = "err" THEN CmdErr
         ELSE IF r.st = "panic" THEN CmdPanic
         ELSE more(r.result, TRUE, r.value)
    [] cmd.t = "keys" ->
         LET r == keyLoop(keyPairs(cmd.keys, result), <<>>, ok, value, 1)
         IN
         IF r.st = "err" THEN CmdErr
         ELSE IF r.st = "panic" THEN CmdPanic
         ELSE more(r.temporary, r.ok, r.value)

evaluateCommands(val, commands) ==
  evaluateFrom(val, commands, 0, <<>>, FALSE, NullV)

(***************************************************************************)
(* Inputs of Apply: lists of car-like objects under a root object, and     *)
(* paths  $.items[?(predicate)]  with or without a trailing  .length       *)
(***************************************************************************)
MaxItems == 2

Elem(v, p, ok) == O(<<"ok", "p", "q", "v">>, <<B(ok), p, N(2), S(v)>>)

Elems == {Elem(v, p, ok) : v \in {"x", "y"}, p \in {N(1), N(3), NullV},
                            ok \in BOOLEAN}

ItemLists == UNION {[1..n -> Elems] : n \in 0..MaxItems}

ApplyRoots ==
  {O(<<"items", "lim">>, <<L(l), S("x")>>) : l \in ItemLists}
  \cup {O(<<"items", "lim">>,
          <<T(<<Elem("x", N(1), TRUE), O(<<"v">>, <<S("x")>>)>>), S("x")>>)}

At(name) == XPath(<<CAt, CKeys(<<S(name)>>)>>)
Dollar(name) == XPath(<<CRoot, CKeys(<<S(name)>>)>>)

Preds ==
  << <<At("v"), XOp("=="), XQuoted("x")>>,
     <<At("p"), XOp("<"), At("q")>>,
     <<At("v"), XOp("=="), Dollar("lim")>>,
     <<At("ok")>>,
     <<At("v")>>,
     <<At("p")>>,
     <<At("zz"), XOp("=="), XQuoted("x")>>,
     <<At("ok"), XOp("&&"), At("v"), XOp("=="), XQuoted("x")>>,
     <<At("v"), XOp("!="), XQuoted("x"), XOp("||"), At("ok")>>,
     <<At("q"), XOp("+"), At("q"), XOp(">"), At("p"), XOp("*"), At("q")>>,
     <<XWord("true")>>,
     <<At("p"), XOp("<"), XNumber(3)>>,
     <<XCall("not", <<At("ok")>>)>> >>

\* the keys of the unions  $.items.*['v','p']  and the like
UnionKeys ==
  << <<S("v"), S("p")>>,
     <<S("p"), S("v")>>,
     <<S("v"), S("v")>>,
     <<S("zz"), S("ok"), S("q")>>,
     <<S("q")>> >>

ApplyPaths ==
  {<<CRoot, CKeys(<<S("items")>>), CFilter(Preds[i])>> : i \in DOMAIN Preds}
  \cup
  {<<CRoot, CKeys(<<S("items")>>), CFilter(Preds[i]), CKeys(<<S("length")>>)>> :
     i \in DOMAIN Preds}
  \cup
  {<<CRoot, CKeys(<<S("items")>>), CWild, CKeys(UnionKeys[i])>> :
     i \in DOMAIN UnionKeys}
  \cup
  {<<CRoot, CDeep>>, <<CRoot, CKeys(<<S("items")>>), CDeep>>}

InitApply ==
  /\ pc = "init"
  /\ registry = InitialRegistry
  /\ acts = <<>>
  /\ out = NoOut
  /\ root \in ApplyRoots
  /\ path \in ApplyPaths

\* JSONPath.Apply
Apply ==
  /\ pc = "init"
  /\ pc' = After(evaluateCommands(root, path).st)
  /\ out' = evaluateCommands(root, path)
  /\ UNCHANGED <<root, path, acts, registry>>

NextApply == Apply

SpecApply == InitApply /\ [][NextApply]_vars

(***************************************************************************)
(* ReplaceByPath (jsonpath.go): the paths Evaluate reports for targetPath  *)
(* are the places of wholeDocument that cty.Transform gives newValue.      *)
(***************************************************************************)
RECURSIVE EvaluateFrom(_, _, _)
\* the loop of Evaluate from turn i on
EvaluateFrom(V, steps, i) ==
  IF i >= Len(steps) THEN V
  ELSE LET t == EvalTurn(V, steps[i + 1], i) IN
       IF t.st # "ok" THEN t ELSE EvaluateFrom(t, steps, i + 1)

\* JSONPath.Evaluate as one call
Evaluate(source, value) ==
  LET r == parse(source)
      b == BuildSteps(r.acts)
  IN
  IF r.err THEN [st |-> "err", Values |-> <<>>, Paths |-> <<>>, flatten |-> FALSE]
  ELSE IF b.err
       THEN [st |-> "err", Values |-> <<value>>, Paths |-> <<<<>>>>, flatten |-> TRUE]
       ELSE EvaluateFrom([st |-> "ok", Values |-> <<value>>, Paths |-> <<<<>>>>,
                          flatten |-> TRUE], b.steps, 0)

\* the outcome of ReplaceByPath: nil marks cty.NilVal
Replaced(v) == [st |-> "ok", v |-> v, nil |-> FALSE]
ReplacedNil == [st |-> "ok", v |-> NullV, nil |-> TRUE]
ReplacePanic == [st |-> "panic", v |-> NullV, nil |-> TRUE]

\* the callback of ReplaceByPath: cty.NewPathSet(vp.Paths...).Has(path)
replaceAt(p, value, paths, newValue) ==
  IF \E k \in DOMAIN paths : paths[k] = p THEN newValue ELSE value

RECURSIVE Transform(_, _, _, _)
\* cty.Transform with that callback: the elements are transformed first,
\* the value is built again from them (cty.ListVal and cty.MapVal panic
\* on elements of different types), then the callback sees the value
Transform(p, val, paths, newValue) ==
  IF ~CanIterateElements(val) \/ Len(val.e) = 0
  THEN Replaced(replaceAt(p, val, paths, newValue))
  ELSE LET ks == ElementKeys(val)
           rs == [j \in DOMAIN val.e |->
                    Transform(Append(p, IF IsObjectType(val)
                                        THEN GetAttrStep(val.keys[j])
                                        ELSE IndexStep(ks[j])),
                              val.e[j], paths, newValue)]
           es == [j \in DOMAIN rs |-> rs[j].v]
       IN
       IF \E j \in DOMAIN rs : rs[j].st = "panic" THEN ReplacePanic
       ELSE IF (IsListType(val) \/ IsMapType(val)) /\ ~Homogeneous(es)
            THEN ReplacePanic
            ELSE Replaced(replaceAt(p, [val EXCEPT !.e = es], paths, newValue))

\* ReplaceByPath(wholeDocument, targetPath, newValue): an error of Evaluate
\* is answered with cty.NilVal and no error
ReplaceByPath(wholeDocument, targetPath, newValue) ==
  LET vp == Evaluate(targetPath, wholeDocument) IN
  IF vp.st = "panic" THEN ReplacePanic
  ELSE IF vp.st = "err" THEN ReplacedNil
       ELSE Transform(<<>>, wholeDocument, vp.Paths, newValue)

\* the values written by the calls of the model
NewValues == {S("new"), N(0)}

InitReplace ==
  /\ pc = "init"
  /\ registry = InitialRegistry
  /\ acts = <<>>
  /\ out = NoOut
  /\ root \in {Roots[i] : i \in DOMAIN Roots}
  /\ path \in SegPaths

\* a call ReplaceByPath(root, path, newValue)
Replace ==
  /\ pc = "init"
  /\ \E newValue \in NewValues :
       LET r == ReplaceByPath(root, path, newValue) IN
       /\ pc' = After(r.st)
       /\ out' = [st |-> r.st, v |-> r.v, nil |-> r.nil, new |-> newValue]
  /\ UNCHANGED <<root, path, acts, registry>>

NextReplace == Replace

SpecReplace == InitReplace /\ [][NextReplace]_vars

(***************************************************************************)
(* NewPath (obj.go): parseJsonPath splits the text of a path into its      *)
(* commands.  A text is held as its pieces in order: the commands, a '['   *)
(* that is never closed, or a character no command starts with.            *)
(***************************************************************************)
\* the piece  [?(expr  with no closing bracket
PUnclosed(expr) == [t |-> "unclosed", expr |-> expr]
\* a character other than  $ @ . [  where a command starts
PSymbol == [t |-> "symbol"]

RECURSIVE parseJsonPathFrom(_, _, _)
\* the loop of parseJsonPath from piece i on: the text between the brackets
\* is copied into the result as it stands
parseJsonPathFrom(text, i, result) ==
  IF i > Len(text) THEN [err |-> FALSE, result |-> result]
  ELSE IF text[i].t = "symbol" THEN [err |-> TRUE, result |-> <<>>]
  ELSE IF text[i].t = "unclosed" THEN [err |-> TRUE, result |-> <<>>]
  ELSE parseJsonPathFrom(text, i + 1, Append(result, text[i]))

parseJsonPath(text) == parseJsonPathFrom(text, 1, <<>>)

\* NewPath: the JSONPath of the parts, or the error of parseJsonPath
NewPath(text) ==
  LET r == parseJsonPath(text) IN
  IF r.err THEN [err |-> TRUE, parts |-> <<>>]
  ELSE [err |-> FALSE, parts |-> r.result]

\* predicates that cannot be evaluated: a word that is no constant, a word
\* in the place of a function, an operator without an entry in operations,
\* an operator without its right operand, two operands without an operator,
\* a function without an argument
BadPreds ==
  << <<At("v"), XOp("=="), XWord("foo")>>,
     <<At("v"), XWord("foo")>>,
     <<At("q"), XOp("**"), At("q")>>,
     <<At("v"), XOp("==")>>,
     <<At("v"), At("p")>>,
     <<XCall("not", <<>>)>> >>

\* the texts given to NewPath
NewPathTexts ==
  {<<CRoot, CKeys(<<S("items")>>), CFilter(Preds[i])>> : i \in DOMAIN Preds}
  \cup
  {<<CRoot, CKeys(<<S("items")>>), CFilter(BadPreds[i])>> : i \in DOMAIN BadPreds}
  \cup
  {<<CRoot, CKeys(<<S("items")>>), PUnclosed(Preds[1])>>,
   <<CRoot, PSymbol, CKeys(<<S("items")>>)>>,
   <<CAt, CKeys(<<S("items")>>)>>,
   <<CKeys(<<S("items")>>)>>,
   <<CKeys(<<S("items")>>), CFilter(Preds[1])>>,
   <<PSymbol, CKeys(<<S("items")>>)>>}

InitNewPath ==
  /\ pc = "init"
  /\ registry = InitialRegistry
  /\ acts = <<>>
  /\ out = NoOut
  /\ root \in ApplyRoots
  /\ path \in NewPathTexts

\* NewPath(path)
CallNewPath ==
  /\ pc = "init"
  /\ LET r == NewPath(path) IN
     IF r.err
     THEN /\ pc' = "failed"
          /\ out' = CmdErr
          /\ acts' = acts
     ELSE /\ pc' = "compiled"
          /\ acts' = r.parts
          /\ out' = out
  /\ UNCHANGED <<root, path, registry>>

\* Apply on the JSONPath that NewPath returned
CallApply ==
  /\ pc = "compiled"
  /\ pc' = After(evaluateCommands(root, acts).st)
  /\ out' = evaluateCommands(root, acts)
  /\ UNCHANGED <<root, path, acts, registry>>

NextNewPath == CallNewPath \/ CallApply

SpecNewPath == InitNewPath /\ [][NextNewPath]_vars

(***************************************************************************)
(* The registration functions of the package (part_001): AddFunction,      *)
(* AddOperation and AddConstant are exported and write the registries.     *)
(***************************************************************************)
\* the aliases a caller registers
Aliases == {"NOT", "PI", "**"}

\* strings.ToLower on the aliases
ToLower(alias) ==
  CASE alias = "NOT" -> "not"
    [] alias = "PI" -> "pi"
    [] OTHER -> alias

\* alias[0], the first character of a lowered alias
FirstChar(alias) ==
  CASE alias = "not" -> "n"
    [] alias = "pi" -> "p"
    [] OTHER -> "*"

\* m[key] = value of a Go map
Put(m, key, value) ==
  [x \in DOMAIN m \cup {key} |-> IF x = key THEN value ELSE m[x]]

\* the functions, the priorities and the constant values a caller passes
UserFunctions == {"user"}
UserPriorities == {1, 7}
UserConstants == {B(FALSE), N(3)}

InitRegistry ==
  /\ pc = "init"
  /\ registry = InitialRegistry
  /\ root = NullV
  /\ path = <<>>
  /\ acts = <<>>
  /\ out = NoOut

AddFunction(alias, function) ==
  /\ registry' = [registry EXCEPT
                    !.functions = Put(@, ToLower(alias), function)]
  /\ UNCHANGED <<pc, root, path, acts, out>>

AddOperation(alias, prior, right, operation) ==
  LET a == ToLower(alias) IN
  /\ registry' = [registry EXCEPT
                    !.operations = Put(@, a, operation),
                    !.priority = Put(@, a, prior),
                    !.priorityChar = @ \cup {FirstChar(a)},
                    !.rightOp = IF right THEN @ \cup {a} ELSE @]
  /\ UNCHANGED <<pc, root, path, acts, out>>

AddConstant(alias, value) ==
  /\ registry' = [registry EXCEPT
                    !.constants = Put(@, ToLower(alias), value)]
  /\ UNCHANGED <<pc, root, path, acts, out>>

NextRegistry ==
  \/ \E alias \in Aliases, function \in UserFunctions :
       AddFunction(alias, function)
  \/ \E alias \in Aliases, prior \in UserPriorities, right \in BOOLEAN,
        operation \in UserFunctions :
       AddOperation(alias, prior, right, operation)
  \/ \E alias \in Aliases, value \in UserConstants :
       AddConstant(alias, value)

SpecRegistry == InitRegistry /\ [][NextRegistry]_vars

(***************************************************************************)
(* Properties.  The helpers below read values the way the documentation    *)
(* describes a result, without the evaluators above.                       *)
(***************************************************************************)

\* the child of node under key, as a sequence of none or one value
ChildAt(node, key) ==
  IF ~CanIterateElements(node) THEN <<>>
  ELSE LET ks == ElementKeys(node)
           hits == {i \in DOMAIN ks : ks[i] = key}
       IN IF hits = {} THEN <<>> ELSE <<node.e[CHOOSE i \in hits : TRUE]>>

RECURSIVE PreOrder(_)
\* a value and its descendants, every node before the nodes inside it
PreOrder(v) ==
  <<v>> \o (IF CanIterateElements(v)
            THEN Flat([i \in DOMAIN v.e |-> PreOrder(v.e[i])])
            ELSE <<>>)

\* what a name or bracket selector picks on one node
Select(sel, node) ==
  CASE sel.t = "attr" -> ChildAt(node, S(sel.ident))
    [] sel.t = "index" -> ChildAt(node, sel.index)
    [] sel.t = "union" ->
         Flat([j \in DOMAIN sel.indexes |-> ChildAt(node, sel.indexes[j])])

\* one lookup of a cty.Path step under v, by attribute name or element key
Lookup(step, v) ==
  ChildAt(v, IF step.t = "GetAttr" THEN S(step.name) ELSE step.key)

RECURSIVE ApplyPath(_, _)
\* successive lookups of the steps of p, starting at v
ApplyPath(p, v) ==
  IF p = <<>> THEN <<v>>
  ELSE LET r == Lookup(Head(p), v) IN
       IF r = <<>> THEN <<>> ELSE ApplyPath(Tail(p), r[1])

\* C1: every pair (Values[k], Paths[k]) that Evaluate returns for a path
\* without a filter round-trips: looking up Paths[k] from the root gives
\* Values[k], whatever the number of steps and after any fan-out
C1_PathsRoundTrip ==
  (pc = "done" /\ out.st = "ok") =>
    /\ Len(out.Paths) = Len(out.Values)
    /\ \A k \in DOMAIN out.Values :
         ApplyPath(out.Paths[k], root) = <<out.Values[k]>>

\* the start value and selector of a path that is one recursive descent
\* with a selector, from the root or from an attribute of it
DeepCase ==
  IF Len(acts) = 3 /\ acts[1] = ADeepParent
  THEN [on |-> TRUE, start |-> root, sel |-> acts[2]]
  ELSE IF /\ Len(acts) = 4 /\ acts[1].t = "attr" /\ acts[2] = ADeepParent
          /\ ChildAt(root, S(acts[1].ident)) # <<>>
       THEN [on |-> TRUE, start |-> ChildAt(root, S(acts[1].ident))[1],
             sel |-> acts[3]]
       ELSE [on |-> FALSE, start |-> NullV, sel |-> AEnd]

\* C2: a recursive descent followed by a name or bracket selector applies
\* the selector to the start value and to every descendant, and returns the
\* matches in depth-first pre-order of the nodes; a node the selector fails
\* on adds nothing
C2_DeepPreOrder ==
  (pc \notin {"init", "prepared", "failed"} /\ DeepCase.on
     /\ DeepCase.sel.t \in {"attr", "index", "union"}) =>
    LET nodes == PreOrder(DeepCase.start) IN
    /\ pc = "done"
    /\ out.st = "ok"
    /\ out.v = T(Flat([i \in DOMAIN nodes |-> Select(DeepCase.sel, nodes[i])]))

\* C2 happens: a descent whose start value matches itself, with matches
\* deeper down and nodes without any
C2_Witness ==
  /\ pc = "done" /\ DeepCase.on /\ DeepCase.sel.t = "attr"
  /\ Select(DeepCase.sel, DeepCase.start) # <<>>
  /\ Len(out.v.e) >= 3
  /\ \E i \in DOMAIN PreOrder(DeepCase.start) :
       Select(DeepCase.sel, PreOrder(DeepCase.start)[i]) = <<>>

\* the keyed root lacks the attribute name
Lacks(name) == IsKeyed(root) /\ ChildAt(root, S(name)) = <<>>

\* C7: a child-by-name step applied directly to a keyed value without the
\* attribute returns an error and no value; under a wildcard the same step
\* returns without error the values of the children that have the
\* attribute, an empty result when none has
C7_MissingAttribute ==
  /\ (pc \notin {"init", "prepared", "failed"} /\ Len(acts) = 2
        /\ acts[1].t = "attr" /\ Lacks(acts[1].ident)) =>
       (pc = "done" /\ out.st = "err" /\ out.v = NullV)
  /\ (pc \notin {"init", "prepared", "failed"} /\ Len(acts) = 3
        /\ acts[1] = AWild /\ acts[2].t = "attr" /\ Lacks(acts[2].ident)) =>
       /\ pc = "done"
       /\ out.st = "ok"
       /\ out.v = T(Flat([i \in DOMAIN root.e |->
                            ChildAt(root.e[i], S(acts[2].ident))]))

\* C7 happens: $.Z has failed on a keyed root without Z
C7_Witness ==
  /\ pc = "done" /\ acts = <<AAttr("Z"), AEnd>> /\ Lacks("Z")
  /\ out.st = "err"

\* the bound a slice entry resolves to on a list of length n: an omitted
\* entry takes dflt, a negative one counts from the end, all are clamped
Resolved(b, n, dflt) ==
  IF b = <<>> THEN dflt
  ELSE LET x == IF b[1] < 0 THEN n + b[1] ELSE b[1] IN
       IF x < 0 THEN 0 ELSE IF x > n THEN n ELSE x

RECURSIVE Ascending(_, _, _)
\* the indices s, s+step, s+2*step, ... below e
Ascending(s, e, step) ==
  IF s < e THEN <<s>> \o Ascending(s + step, e, step) ELSE <<>>

\* the elements of the root at the indices is
ItemsAt(is) == T([j \in DOMAIN is |-> root.e[is[j] + 1]])

\* the call has left Prepare and the FilterFunc behind
Ran == pc \notin {"init", "prepared"}

\* the path is  $[s:e]  when st is omitted, or  $[s:e:st]
IsSlicePath(s, e, st) ==
  \/ path = <<TDollar>> \o SliceToks3(s, e, st)
  \/ st = <<>> /\ path = <<TDollar>> \o SliceToks2(s, e)

\* C3: on a list of length n, a slice with a positive or omitted step
\* selects the indices s, s+step, ... below e in ascending order, s and e
\* being the resolved bounds (negative b is n+b, clamped into [0,n], omitted
\* start 0, omitted end n, omitted step 1), an explicit end of 0 included
C3_SliceForward ==
  \A s \in Opt(-MaxIdx..MaxIdx), e \in Opt(-MaxIdx..MaxIdx), st \in Opt(1..MaxStep) :
    (Ran /\ IsIndexed(root) /\ IsSlicePath(s, e, st)) =>
      LET n == Len(root.e) IN
      /\ pc = "done"
      /\ out.st = "ok"
      /\ out.v = ItemsAt(Ascending(Resolved(s, n, 0), Resolved(e, n, n),
                                   IF st = <<>> THEN 1 ELSE st[1]))

\* C4: a slice written with the step 0 ends with an error, from compiling
\* it or from evaluating it, and with no values
C4_ZeroStepIsError ==
  \A s \in Opt(-MaxIdx..MaxIdx), e \in Opt(-MaxIdx..MaxIdx) :
    (Ran /\ IsIndexed(root) /\ path = <<TDollar>> \o SliceToks3(s, e, <<0>>)) =>
      /\ pc \in {"failed", "done"}
      /\ out.st = "err"
      /\ out.v = NullV

\* the index of an element of the lists 0, 10, 20, ...
IndexOf(v) == v.n \div 10

\* C5: on a list of length n, a slice with a negative step selects a
\* strictly decreasing index sequence inside [s, e) for the resolved bounds,
\* beginning with e-1;  [::-1]  returns the whole list reversed
C5_SliceBackward ==
  \A s \in Opt(-MaxIdx..MaxIdx), e \in Opt(-MaxIdx..MaxIdx),
     st \in {<<k>> : k \in (-MaxStep)..(-1)} :
    (Ran /\ root = ListOf(Len(root.e)) /\ path = <<TDollar>> \o SliceToks3(s, e, st)) =>
      LET n == Len(root.e)
          rs == Resolved(s, n, 0)
          re == Resolved(e, n, n)
      IN
      /\ pc = "done"
      /\ out.st = "ok"
      /\ \A j \in DOMAIN out.v.e :
           /\ out.v.e[j] = root.e[IndexOf(out.v.e[j]) + 1]
           /\ rs <= IndexOf(out.v.e[j]) /\ IndexOf(out.v.e[j]) < re
           /\ j > 1 => IndexOf(out.v.e[j]) < IndexOf(out.v.e[j - 1])
      /\ rs < re => (out.v.e # <<>> /\ IndexOf(out.v.e[1]) = re - 1)
      /\ (s = <<>> /\ e = <<>> /\ st = <<-1>>) => out.v = T(Reverse(root.e))

RECURSIVE Chain(_, _)
\* the steps by name or index applied one after the other to c: the value
\* reached, or nothing when one of them fails
Chain(steps, c) ==
  IF steps = <<>> THEN <<c>>
  ELSE LET r == Select(Head(steps), c) IN
       IF r = <<>> THEN <<>> ELSE Chain(Tail(steps), r[1])

\* the candidates a fan-out step hands on from v
FanCandidates(F, v) ==
  CASE F.t = "wild" -> v.e
    [] F.t = "deepParent" -> PreOrder(v)
    [] F.t = "union" -> Select(F, v)
    [] F.t = "slice" ->
         LET is == SliceIndices(SliceL(F.indexes, Len(v.e)),
                                SliceR(F.indexes, Len(v.e)), SliceM(F.indexes))
         IN [j \in DOMAIN is |-> v.e[is[j] + 1]]

\* the path is a fan-out step over the root followed by steps by name or
\* index
FanOutCase ==
  /\ Len(acts) >= 3
  /\ acts[1].t \in {"wild", "deepParent", "union", "slice"}
  /\ \A j \in 2..(Len(acts) - 1) : acts[j].t \in {"attr", "index"}
  /\ CanIterateElements(root)
  /\ acts[1].t = "slice" =>
       /\ \A j \in DOMAIN acts[1].indexes : acts[1].indexes[j].k = "num"
       /\ SliceM(acts[1].indexes) # 0

\* C6: when the steps after a Wildcard, RecursiveDescent, Slice or Union
\* fail for one fanned-out candidate, the candidate adds no value and Read
\* returns no error: the result holds what the other candidates give
C6_FanOutDropsFailures ==
  (Ran /\ pc # "failed" /\ FanOutCase) =>
    LET cs == FanCandidates(acts[1], root) IN
    /\ pc = "done"
    /\ out.st = "ok"
    /\ out.v = T(Flat([i \in DOMAIN cs |->
                         Chain(SubSeq(acts, 2, Len(acts) - 1), cs[i])]))

\* the path is  $.items[?(predicate)]  over a list
FilterCase ==
  /\ Len(path) = 3 /\ path[2].t = "keys" /\ path[3].t = "filter"
  /\ Select(AUnion(path[2].keys), root) # <<>>
  /\ IsListType(Select(AUnion(path[2].keys), root)[1])

\* the elements of the list the filter is applied to
Items == Select(AUnion(path[2].keys), root)[1].e

\* the elements of the list a filter returns, none when it returns no list
Members(o) == IF o.result = <<>> THEN <<>> ELSE o.result[1].e

\* the outcome of the predicate on one element
Verdict(el) == eval(el, rpn(path[3].expr))

\* C8: a filter applied to a list returns exactly the elements whose
\* predicate evaluates to boolean true, in their order in the list; the
\* elements whose predicate is false, not a boolean, null or absent are
\* left out
C8_FilterKeepsTrue ==
  (pc # "init" /\ FilterCase /\ \A i \in DOMAIN Items : Verdict(Items[i]).st = "ok") =>
    /\ pc = "done"
    /\ out.st = "ok"
    /\ Len(out.result) <= 1
    /\ Members(out) = SelectSeq(Items, LAMBDA el : Verdict(el) = EvOk(B(TRUE)))

\* C8 happens: a filter has kept some elements of a list and left out
\* others
C8_Witness ==
  /\ pc = "done" /\ FilterCase /\ out.st = "ok"
  /\ Members(out) # <<>>
  /\ Len(Members(out)) < Len(Items)
  /\ \E i \in DOMAIN Items : Verdict(Items[i]) = EvOk(B(FALSE))
  /\ \E i \in DOMAIN Items : Verdict(Items[i]) = EvOk(B(TRUE))

\* the predicate with every sub-path  $.name  replaced by the text that
\* name has in rootv
BindRoot(expr, rootv) ==
  [i \in DOMAIN expr |->
     IF expr[i].k = "path" /\ expr[i].cmds[1] = CRoot /\ Len(expr[i].cmds) = 2
     THEN LET r == Select(AUnion(expr[i].cmds[2].keys), rootv) IN
          IF Len(r) = 1 /\ r[1].k = "str" THEN XQuoted(r[1].s) ELSE expr[i]
     ELSE expr[i]]

\* the outcome of the predicate on one element with '$' standing for the
\* root the query is applied to
VerdictAtRoot(el) == eval(el, rpn(BindRoot(path[3].expr, root)))

\* C9: in a filter predicate a sub-path from '@' is evaluated against the
\* element under test and a sub-path from '$' against the root value of
\* the query
C9_DollarIsRoot ==
  (pc # "init" /\ FilterCase
     /\ \A i \in DOMAIN Items : VerdictAtRoot(Items[i]).st = "ok") =>
    /\ pc = "done"
    /\ out.st = "ok"
    /\ Members(out) = SelectSeq(Items, LAMBDA el : VerdictAtRoot(el) = EvOk(B(TRUE)))

\* C10: an element whose predicate raises an error is left out, and Apply
\* returns the other matching elements with no error
C10_PredicateErrorSkips ==
  (pc # "init" /\ FilterCase
     /\ \A i \in DOMAIN Items : Verdict(Items[i]).st # "panic") =>
    /\ pc = "done"
    /\ out.st = "ok"
    /\ Members(out) = SelectSeq(Items, LAMBDA el : Verdict(el) = EvOk(B(TRUE)))

\* what a multi-valued step gives on one candidate, nothing when the
\* candidate has no elements
StepOut(G, c) == IF CanIterateElements(c) THEN FanCandidates(G, c) ELSE <<>>

\* a slice step with integer entries and a step other than zero
PlainSlice(a) ==
  a.t = "slice" =>
    /\ \A j \in DOMAIN a.indexes : a.indexes[j].k = "num"
    /\ SliceM(a.indexes) # 0

\* the path is two multi-valued steps in a row over the root: a slice, a
\* union or a wildcard followed by a union or a slice
ChainedCase ==
  /\ Len(acts) = 3
  /\ acts[1].t \in {"slice", "union", "wild"}
  /\ acts[2].t \in {"union", "slice"}
  /\ CanIterateElements(root)
  /\ PlainSlice(acts[1]) /\ PlainSlice(acts[2])

\* C11: when two multi-valued steps are chained, the later step is applied
\* to each output of the earlier step in order and the results are
\* concatenated, grouped by the elements of the earlier step
C11_ChainedStepsGroup ==
  (Ran /\ pc # "failed" /\ ChainedCase) =>
    LET cs == FanCandidates(acts[1], root) IN
    /\ pc = "done"
    /\ out.st = "ok"
    /\ out.v = T(Flat([i \in DOMAIN cs |-> StepOut(acts[2], cs[i])]))

\* the path is one union step over the root
UnionCase ==
  /\ Len(acts) = 2
  /\ acts[1].t = "union"
  /\ CanIterateElements(root)

UnionOverSet ==
  /\ Len(path) = 4 /\ path[2].t = "keys" /\ path[3].t = "*" /\ path[4].t = "keys"
  /\ Select(AUnion(path[2].keys), root) # <<>>
  /\ isArray(Select(AUnion(path[2].keys), root)[1])

\* the matches of one key across the candidates cs, in their order
MatchesOf(key, cs) == Flat([j \in DOMAIN cs |-> ChildAt(cs[j], key)])

\* C13: in Apply, a union applied to a working set of several candidates is
\* key-major: the matches of the first key across all candidates in
\* working-set order, then those of the second key, and so on
C13_ApplyUnionKeyMajor ==
  (pc # "init" /\ UnionOverSet) =>
    /\ pc = "done"
    /\ out.st = "ok"
    /\ out.result = Flat([k \in DOMAIN path[4].keys |-> MatchesOf(path[4].keys[k], Items)])

\* C13 happens: two keys over two candidates with different values
C13_Witness ==
  /\ pc = "done" /\ UnionOverSet
  /\ path[4].keys = <<S("v"), S("p")>>
  /\ Len(Items) = 2
  /\ out.result = <<S("x"), S("y"), N(1), N(3)>>

\* the start value X of a path  X..*, X being the root or an attribute of it
DeepWildCase ==
  IF acts = <<ADeepChildren, APass, AEnd>>
  THEN [on |-> TRUE, start |-> root]
  ELSE IF /\ Len(acts) = 4 /\ acts[1].t = "attr"
          /\ SubSeq(acts, 2, 4) = <<ADeepChildren, APass, AEnd>>
          /\ ChildAt(root, S(acts[1].ident)) # <<>>
       THEN [on |-> TRUE, start |-> ChildAt(root, S(acts[1].ident))[1]]
       ELSE [on |-> FALSE, start |-> NullV]

\* the children of a value, none for a primitive
Children(v) == IF CanIterateElements(v) THEN v.e ELSE <<>>

\* C14: X..*  returns every proper descendant of X, not X itself, each
\* once, in depth-first pre-order; for a container whose children are all
\* primitives that is the sequence  X.*  returns
C14_DeepWildDescendants ==
  (Ran /\ pc # "failed" /\ DeepWildCase.on) =>
    LET X == DeepWildCase.start IN
    /\ pc = "done"
    /\ out.st = "ok"
    /\ out.v = T(Tail(PreOrder(X)))
    /\ (CanIterateElements(X) /\ \A i \in DOMAIN X.e : ~CanIterateElements(X.e[i])) =>
         /\ out.v = T(X.e)
         /\ out.v = Run(<<AWild, AEnd>>, X).v

\* C14 happens: the descent has returned children followed by their own
\* children
C14_Witness ==
  /\ pc = "done" /\ DeepWildCase.on /\ out.st = "ok"
  /\ root = RootA /\ DeepWildCase.start = root
  /\ Len(out.v.e) = 11
  /\ out.v.e[1] = root.e[1] /\ out.v.e[2] = root.e[1].e[1]

\* C15: X..*  gives the sequence got by applying the wildcard to X and then
\* to every descendant of X in pre-order, and concatenating those lists of
\* children in that order, for roots nested to any depth
C15_DeepWildIsWildcardPerNode ==
  (Ran /\ pc # "failed" /\ DeepWildCase.on) =>
    LET nodes == PreOrder(DeepWildCase.start) IN
    /\ pc = "done"
    /\ out.st = "ok"
    /\ out.v = T(Flat([i \in DOMAIN nodes |-> Children(nodes[i])]))

\* C16: a single index step with a negative integer i on a list of length
\* n selects the element at position i+n when 0 <= i+n < n:  [-1]  selects
\* the last element
C16_NegativeIndexFromEnd ==
  \A i \in (-MaxIdx)..(-1) :
    (Ran /\ pc # "failed" /\ acts = <<AIndex(N(i)), AEnd>> /\ IsIndexed(root)
       /\ 0 <= i + Len(root.e) /\ i + Len(root.e) < Len(root.e)) =>
      /\ pc = "done"
      /\ out.st = "ok"
      /\ out.v = root.e[i + Len(root.e) + 1]

\* what one step hands on from one candidate: the matched nodes, none when
\* the step does not apply to the candidate
StepOver(a, c) ==
  CASE a.t \in {"attr", "index", "union"} -> Select(a, c)
    [] a.t = "wild" -> Children(c)
    [] a.t = "slice" ->
         IF \A j \in DOMAIN a.indexes : a.indexes[j].k = "num"
         THEN StepOut(a, c) ELSE <<>>
    [] a.t = "deepParent" -> PreOrder(c)
    [] a.t = "deepChildren" -> Tail(PreOrder(c))
    [] a.t \in {"pass", "end"} -> <<c>>

RECURSIVE WorkingSet(_, _)
\* the steps applied one after the other to a flat sequence of candidates
WorkingSet(as, cs) ==
  IF as = <<>> THEN cs
  ELSE WorkingSet(Tail(as), Flat([i \in DOMAIN cs |-> StepOver(Head(as), cs[i])]))

\* the path holds a step that can hand on several candidates
HasFanOut ==
  \E j \in DOMAIN acts :
    acts[j].t \in {"wild", "slice", "union", "deepParent", "deepChildren"}

\* no union of the path is followed by a further step
UnionsLast ==
  \A j \in DOMAIN acts : acts[j].t = "union" => j = Len(acts) - 1

\* C17: the output of a sequence of fan-out steps is one flat sequence:
\* every element of the returned tuple is a node matched in the root tree,
\* never the result tuple of one candidate, and a matched node that is
\* itself a list stays one element
C17_OutputIsFlat ==
  (pc = "done" /\ out.st = "ok" /\ HasFanOut) =>
    /\ out.v.k = "tuple"
    /\ \A j \in DOMAIN out.v.e :
         \E i \in DOMAIN PreOrder(root) : out.v.e[j] = PreOrder(root)[i]
    /\ UnionsLast => out.v.e = WorkingSet(acts, <<root>>)

\* C17 happens: two wildcards in a row return the grandchildren as one
\* sequence, a grandchild that is a list among them as one element
C17_Witness ==
  /\ pc = "done" /\ out.st = "ok" /\ root = RootB
  /\ acts = <<AWild, AWild, AEnd>>
  /\ out.v = T(<<N(1), T(<<N(5), N(6)>>), N(2), N(10), N(11), N(12)>>)

\* C18: whenever Evaluate returns a ValueContainer, and after every step of
\* its loop, Values and Paths have the same length, for every path and root
C18_ValuesAndPathsPair ==
  (pc \in {"loop", "done"}) => Len(out.Values) = Len(out.Paths)

\* C18 happens: Evaluate has returned several values with their paths
C18_Witness ==
  /\ pc = "done" /\ out.st = "ok"
  /\ Len(out.Values) >= 3
  /\ Len(out.Paths) = Len(out.Values)
  /\ Len(acts) = 2

\* the keys of c that a step by name, index, union or wildcard matches
KeysOf(a, c) ==
  IF a.t = "wild" THEN (IF CanIterateElements(c) THEN ElementKeys(c) ELSE <<>>)
  ELSE LET ks == CASE a.t = "attr" -> <<S(a.ident)>>
                   [] a.t = "index" -> <<a.index>>
                   [] a.t = "union" -> a.indexes
       IN SelectSeq(ks, LAMBDA k : ChildAt(c, k) # <<>>)

RECURSIVE Locations(_, _, _)
\* the locations under c that the steps as match, each the sequence of
\* keys that leads to it from the root, p being the keys that lead to c
Locations(as, p, c) ==
  IF Head(as).t = "end" THEN {p}
  ELSE LET ks == KeysOf(Head(as), c) IN
       UNION {Locations(Tail(as), Append(p, ks[j]), ChildAt(c, ks[j])[1]) :
                j \in DOMAIN ks}

RECURSIVE PutAt(_, _, _, _)
\* v, found under the keys p, with new at every location of locs
PutAt(p, v, locs, new) ==
  IF p \in locs THEN new
  ELSE IF CanIterateElements(v)
       THEN [v EXCEPT !.e = [j \in DOMAIN v.e |->
                               PutAt(Append(p, ElementKeys(v)[j]), v.e[j], locs, new)]]
       ELSE v

\* the path is made of steps by name, index, union or wildcard
KeyStepsOnly(as) ==
  \A j \in DOMAIN as : as[j].t \in {"attr", "index", "union", "wild", "end"}

\* C19: ReplaceByPath(doc, path, new) returns doc with new at every
\* location the path matches and the original value everywhere else, for
\* paths of one step and of several steps such as  $.x.y
C19_ReplaceFrame ==
  (pc # "init" /\ ~parse(path).err /\ KeyStepsOnly(parse(path).acts)) =>
    /\ pc = "done"
    /\ out.st = "ok"
    /\ ~out.nil
    /\ out.v = PutAt(<<>>, root, Locations(parse(path).acts, <<>>, root), out.new)

\* the text is  $.items[?(predicate)]  with one of the predicates that
\* cannot be evaluated
MalformedFilter ==
  /\ Len(path) = 3 /\ path[3].t = "filter"
  /\ \E i \in DOMAIN BadPreds : path[3].expr = BadPreds[i]

\* C20: a path whose filter predicate is malformed (unknown function,
\* operator or constant, unbalanced expression) is rejected when it is
\* compiled: NewPath returns an error, which does not first appear in Apply
C20_MalformedFilterRejected ==
  (pc # "init" /\ MalformedFilter) => (pc = "failed" /\ out.st = "err")

\* the predicate of the filter compares the p of an element with the number
\* literal n
ComparesWithNumber(n) ==
  FilterCase /\ path[3].expr = <<At("p"), XOp("<"), XNumber(n)>>

\* C21: the filter evaluator accepts a number literal as an operand: the
\* instruction pushes the number and evaluation goes on without error, as
\* for a quoted string, so  @.p < 3  is the comparison of p with 3
C21_NumberLiteralIsOperand ==
  \A n \in {3} :
    (pc # "init" /\ ComparesWithNumber(n)) =>
      /\ \A i \in DOMAIN Items :
           (HasAttribute(Items[i], "p") /\ GetAttr(Items[i], "p").k = "num") =>
             Verdict(Items[i]) = EvOk(B(GetAttr(Items[i], "p").n < n))
      /\ (\A i \in DOMAIN Items :
            HasAttribute(Items[i], "p") /\ GetAttr(Items[i], "p").k = "num") =>
           (pc = "done" /\ out.st = "ok")

\* C22: NewPath returns a syntax error for every path text that does not
\* start with '$'
C22_PathStartsWithDollar ==
  (pc # "init" /\ path[1] # CRoot) => (pc = "failed" /\ out.st = "err")

\* the number of ':' tokens of the path
Colons == Cardinality({i \in DOMAIN path : path[i] = TColon})

\* the path is  $[...]  with one bracket that holds colons and integer or
\* omitted bounds only
SliceBracket ==
  /\ Len(path) >= 4
  /\ path[1] = TDollar /\ path[2] = TLBr /\ path[Len(path)] = TRBr
  /\ \A i \in 3..(Len(path) - 1) : path[i].t \in {"int", "-", ":"}
  /\ Colons >= 1

\* C23: a bracket in slice form has as many bound entries as colons plus
\* one: with more than two colons it fails to compile, with one or two
\* colons and integer or omitted bounds it compiles to a slice of two or
\* three entries
C23_SliceEntriesPerColon ==
  (pc # "init" /\ SliceBracket) =>
    IF Colons > 2
    THEN pc = "failed" /\ out.st = "err"
    ELSE /\ pc # "failed"
         /\ Len(acts) = 2
         /\ acts[1].t = "slice"
         /\ Len(acts[1].indexes) = Colons + 1

\* C23 happens: a bracket with three colons has been refused
C23_Witness ==
  /\ pc = "failed" /\ SliceBracket /\ Colons = 3
  /\ path = <<TDollar>> \o SliceToks4(<<1>>, <<>>, <<0>>, <<0>>)

\* C24: the set of functions, operators and constants usable in filter
\* predicates is fixed: no operation of the public interface adds to or
\* changes the registries after initialisation.
C24_RegistriesFixed == registry = InitialRegistry

\* the path is one slice bracket over a list root, all entries numbers and
\* the step different from 0
SliceOverList ==
  /\ pc \notin {"init", "failed"}
  /\ CanIterateElements(root)
  /\ Len(acts) = 2
  /\ acts[1].t = "slice"
  /\ \A j \in DOMAIN acts[1].indexes : acts[1].indexes[j].k = "num"
  /\ SliceM(acts[1].indexes) # 0

\* the indices the slice loop of prepareSlice visits for the root
EmittedIndices ==
  SliceIndices(SliceL(acts[1].indexes, LengthInt(root)),
               SliceR(acts[1].indexes, LengthInt(root)),
               SliceM(acts[1].indexes))

\* C25: for every list length n, every start and end and every step
\* different from 0 the slice loop of prepareSlice terminates, emits at most
\* n indices, emits no index twice, and every emitted index i satisfies
\* 0 <= i < n, so the slice never reads outside the container.
C25_SliceLoopStaysInside ==
  SliceOverList =>
    LET n == LengthInt(root)
        is == EmittedIndices
    IN /\ Len(is) <= n
       /\ \A j \in DOMAIN is : 0 <= is[j] /\ is[j] < n
       /\ \A j, k \in DOMAIN is : j # k => is[j] # is[k]
       /\ pc \notin {"crashed", "hung"}

\* the path is  $..  or  $.name..
DescentCase ==
  /\ Len(path) \in {2, 3} /\ path[1] = CRoot /\ path[Len(path)] = CDeep
  /\ Len(path) = 3 =>
       /\ path[2].t = "keys"
       /\ Select(AUnion(path[2].keys), root) # <<>>

\* the node the recursive descent starts from
DescentNode ==
  IF Len(path) = 2 THEN root ELSE Select(AUnion(path[2].keys), root)[1]

\* C26: recursiveChildren(node) returns every proper descendant of node
\* (its immediate children, their children and all deeper descendants) for
\* every kind of container: list, tuple, map and object.
C26_DescentReturnsEveryDescendant ==
  (pc # "init" /\ DescentCase) =>
    LET below == Tail(PreOrder(DescentNode))
        got == recursiveChildren(DescentNode)
    IN /\ \A i \in DOMAIN below : \E j \in DOMAIN got : got[j] = below[i]
       /\ pc = "done"
       /\ \A i \in DOMAIN below :
            \E j \in DOMAIN out.result : out.result[j] = below[i]

\* the predicate of the filter is  not(@.name)
NegatesAttr(name) == FilterCase /\ path[3].expr = <<XCall("not", <<At(name)>>)>>

\* C27: the registered unary function `not` returns the logical negation of
\* its boolean argument: true gives false and false gives true.
C27_NotNegates ==
  (pc # "init" /\ NegatesAttr("ok")) =>
    /\ \A i \in DOMAIN Items :
         Verdict(Items[i]) = EvOk(B(~ChildAt(Items[i], S("ok"))[1].b))
    /\ \A b \in BOOLEAN : functions("not", B(b)) = EvOk(B(~b))
    /\ pc = "done"

\* the name of the instruction is that of a function, or else that of an
\* operator
IsFunction(exp) == ExpName(exp) \in FunctionNames
IsOperation(exp) == ~IsFunction(exp) /\ ExpName(exp) \in OperationNames

RECURSIVE EvalKeepsStack(_, _, _, _)
\* eval of the instructions whole on node, from instruction k on with the
\* stack: no instruction reads below the stack, an operator takes one value
\* off it, a function none, and the end returns the one value left
EvalKeepsStack(node, whole, k, stack) ==
  IF k > Len(whole)
  THEN eval(node, whole) =
         (IF Len(stack) = 1 THEN EvOk(stack[1])
          ELSE IF Len(stack) = 0 THEN EvNil ELSE EvErr)
  ELSE LET exp == whole[k]
           size == Len(stack)
       IN
       \A t \in {evalStep(node, exp, stack)} :
       /\ (IsFunction(exp) /\ size < 1) => (t.done /\ t.r = EvErr)
       /\ (IsOperation(exp) /\ size < 2) => (t.done /\ t.r = EvErr)
       /\ t.done => eval(node, whole) = t.r
       /\ ~t.done =>
            /\ IsFunction(exp) => Len(t.stack) = size
            /\ IsOperation(exp) => Len(t.stack) = size - 1
            /\ EvalKeepsStack(node, whole, k + 1, t.stack)

\* C28: eval never underflows its stack: a function met with an empty stack
\* and an operator met with fewer than two values return an error; an
\* operator shrinks the stack by exactly one and a function leaves its size
\* unchanged; after the last instruction eval returns the single remaining
\* value, null without error if none remain, and an error if more than one
\* remain.
C28_EvalKeepsStack ==
  (pc # "init" /\ FilterCase) =>
    \A whole \in {rpn(path[3].expr)} :
      \A i \in DOMAIN Items : EvalKeepsStack(Items[i], whole, 1, <<>>)

\* C28 happens: Apply has evaluated an operator without its right operand,
\* a function without an argument and two operands without an operator,
\* each on an element, and returned the error of eval
C28_Witness ==
  /\ pc = "done" /\ FilterCase /\ Items # <<>> /\ out.st = "err"
  /\ path[3].expr \in {<<At("v"), XOp("==")>>, <<XCall("not", <<>>)>>,
                       <<At("v"), At("p")>>}
  /\ Verdict(Items[1]) = EvErr

\* the predicate of the filter is  @.q o @.q
UsesOperator(o) == FilterCase /\ path[3].expr = <<At("q"), XOp(o), At("q")>>

\* C29: every operator that has an entry in the precedence table priority
\* (including the power **, the shifts and the bitwise operators) also has
\* an implementation in operations, so any operator the compiler can order
\* can also be evaluated.
C29_OrderedOperatorsEvaluate ==
  pc # "init" =>
    /\ DOMAIN registry.priority \subseteq DOMAIN registry.operations
    /\ \A o \in DOMAIN registry.priority :
         UsesOperator(o) =>
           /\ \A i \in DOMAIN Items : Verdict(Items[i]).st = "ok"
           /\ pc = "done" => out.st = "ok"

\* the number of ',' tokens of the path
Commas == Cardinality({i \in DOMAIN path : path[i] = TComma})

\* the number of entries written in the path: integers, names and strings
Written ==
  Cardinality({i \in DOMAIN path : path[i].t \in {"int", "ident", "string"}})

\* the path is '$' and one bracket of entries and separators
OneBracket ==
  /\ Len(path) >= 3 /\ path[1] = TDollar /\ path[2] = TLBr
  /\ path[Len(path)] = TRBr
  /\ \A i \in 3..(Len(path) - 1) :
       path[i].t \in {"int", "-", "ident", "string", ":", ","}

\* C30 as stated: in parseArray the bracket mode is set by the first
\* separator and never changes: a bracket containing both ',' and ':'
\* always fails to compile; slice mode always compiles to a slice step, a
\* single entry without separator to an index step, and two or more
\* comma-separated entries to a union step.
C30_ModeDecidesStep ==
  (pc # "init" /\ OneBracket) =>
    /\ (Colons >= 1 /\ Commas >= 1) => pc = "failed"
    /\ (Colons >= 1 /\ Commas = 0) => (pc # "failed" /\ acts[1].t = "slice")
    /\ (Colons = 0 /\ Commas = 0 /\ Written = 1) =>
         (pc # "failed" /\ acts[1].t = "index")
    /\ (Colons = 0 /\ Commas >= 1 /\ Written >= 2) =>
         /\ pc # "failed" /\ acts[1].t = "union"
         /\ Len(acts[1].indexes) = Written

\* C30, amended: in parseArray the bracket mode is set by the first
\* separator and never changes: a bracket containing both ',' and ':'
\* always fails to compile; slice mode compiles to a slice step when the
\* bracket has at most two ':' and fails to compile otherwise; a single
\* entry, with or without a trailing ',', compiles to an index step, and
\* two or more comma-separated entries to a union step.
C30_ModeDecidesStepUpToThree ==
  (pc # "init" /\ OneBracket) =>
    /\ (Colons >= 1 /\ Commas >= 1) => pc = "failed"
    /\ (Colons >= 1 /\ Commas = 0) =>
         IF Colons > 2 THEN pc = "failed"
         ELSE pc # "failed" /\ acts[1].t = "slice"
    /\ (Colons = 0 /\ Written = 1) => (pc # "failed" /\ acts[1].t = "index")
    /\ (Colons = 0 /\ Commas >= 1 /\ Written >= 2) =>
         /\ pc # "failed" /\ acts[1].t = "union"
         /\ Len(acts[1].indexes) = Written

\* C30 happens: Prepare has rejected  $[0,1:2], a bracket in union mode that
\* meets a ':'
C30_Witness ==
  /\ pc = "failed" /\ OneBracket /\ Colons >= 1 /\ Commas >= 1
  /\ path = <<TDollar, TLBr, TInt(0), TComma, TInt(1), TColon, TInt(2), TRBr>>

====
